---- MODULE Spec2Model ----
(***************************************************************************)
(* A model of chat_pdfs.py: the chunker, the fragment ids, the hybrid      *)
(* retrieval with rank fusion, the context expander and the chat loop.     *)
(*                                                                         *)
(* Texts are run-length encoded: <<n1, w1, n2, w2, ...>> is n1 characters  *)
(* that are not whitespace, then w1 whitespace characters, then n2 that    *)
(* are not whitespace, and so on.  Positions are 0-based as in Python.     *)
(***************************************************************************)
EXTENDS Integers, Sequences, FiniteSets, TLC

\* ------------------------------------------------------------------------
\* Program constants
\* ------------------------------------------------------------------------
CHUNK_SIZE == 800
CHUNK_OVERLAP == 200
MIN_CHUNK_LENGTH == 100

\* ------------------------------------------------------------------------
\* Bounds of the model
\* ------------------------------------------------------------------------
MaxTextLen == 1500
MaxIter == 12

\* run lengths of the texts that mix whitespace and other characters
RunLens == {40, 600, 760}

\* (chunk_size, overlap) pairs dividir_en_chunks is called with; the first
\* is the pair of defaults, the only one the program itself uses
ChunkConfigs ==
    {<<CHUNK_SIZE, CHUNK_OVERLAP>>, <<300, 100>>, <<500, 0>>, <<200, 200>>, <<100, 200>>}

\* the chunker
VARIABLES texto, chunk_size, overlap, inicio, chunks, chunk_pc, iter

\* fragment ids and neighbours: two (source, page, chunk) triples followed
\* from the indexer to the searchers and the context expander
VARIABLES frag_pc, trip_a, trip_b, n_vecinos, guardado_a, guardado_b,
          ids_a, ids_b, ids_adyacentes, ids_leidos

\* the fusion of realizar_busqueda_hibrida applied to drawn result lists:
\* once as drawn, once with one more keyword hit, once with one more
\* exhaustive match
VARIABLES fus_pc, fus_sem, fus_kw, fus_hit, fus_pos, fus_exh, fus_frag,
          fus_base, fus_mas_kw, fus_mas_exh

\* main and the chat loop: the collection, the PDFs of the folder, the seed
\* of the string hashes of the process, the line read, and the locals of
\* realizar_busqueda_hibrida and of ejecutar_chat for the question being
\* answered
VARIABLES chat_pc, coleccion, archivos_pdf, semilla, entrada, queries,
          keywords_expandidas, q_idx, all_semantic_results, kw_idx,
          resultados_keyword, fragmentos_data, fragmentos_ranked, mejor_score,
          fragmentos_finales, ids_usados, chunks_adicionales, exp_idx,
          resultado, fallo, fallos, generado

\* what the searches of this question returned: results_semantic of every
\* pass and the list of the exhaustive search; hubo_previa says that a
\* question was answered before this one
VARIABLES results_semantic, resultados_exhaustivos, hubo_previa

\* indexar_documentos chunk by chunk: the folder (each file with the number
\* of chunks of each of its pages), the file, page and chunk in turn, the
\* count, and the (file, page) pairs whose indexing was cut by an exception
VARIABLES idx_pc, carpeta, n_archivo, n_pagina, idx_chunk, total_chunks,
          paginas_fallidas

chunkVars == <<texto, chunk_size, overlap, inicio, chunks, chunk_pc, iter>>
fragVars == <<frag_pc, trip_a, trip_b, n_vecinos, guardado_a, guardado_b,
              ids_a, ids_b, ids_adyacentes, ids_leidos>>
fusVars == <<fus_pc, fus_sem, fus_kw, fus_hit, fus_pos, fus_exh, fus_frag,
             fus_base, fus_mas_kw, fus_mas_exh>>
\* the locals of the search and of the expansion
searchVars == <<queries, keywords_expandidas, q_idx, all_semantic_results, kw_idx,
                resultados_keyword, fragmentos_data, fragmentos_ranked, mejor_score,
                fragmentos_finales, ids_usados, chunks_adicionales, exp_idx,
                results_semantic, resultados_exhaustivos>>
chatVars == <<chat_pc, coleccion, archivos_pdf, semilla, entrada, searchVars, resultado,
              fallo, fallos, generado, hubo_previa>>
idxVars == <<idx_pc, carpeta, n_archivo, n_pagina, idx_chunk, total_chunks,
             paginas_fallidas>>
vars == <<chunkVars, fragVars, fusVars, chatVars, idxVars>>

\* ------------------------------------------------------------------------
\* Helpers
\* ------------------------------------------------------------------------
Min(a, b) == IF a <= b THEN a ELSE b
Max(a, b) == IF a >= b THEN a ELSE b

RECURSIVE SumTo(_, _)
SumTo(t, k) == IF k = 0 THEN 0 ELSE t[k] + SumTo(t, k - 1)

\* len(texto)
TextLen(t) == SumTo(t, Len(t))

\* the runs of t that hold characters other than whitespace, cut to [a, b)
NonWsPieces(t, a, b) ==
    { <<Max(SumTo(t, k - 1), a), Min(SumTo(t, k), b)>> :
        k \in { j \in 1..Len(t) : j % 2 = 1 } }

\* len(texto[a:b].strip())
StripLen(t, a, b) ==
    LET ps == { p \in NonWsPieces(t, a, b) : p[1] < p[2] }
    IN  IF ps = {} THEN 0
        ELSE LET lo == CHOOSE x \in { p[1] : p \in ps } : \A p \in ps : x <= p[1]
                 hi == CHOOSE y \in { p[2] : p \in ps } : \A p \in ps : y >= p[2]
             IN  hi - lo

\* ------------------------------------------------------------------------
\* dividir_en_chunks, one action per pass of its while loop
\* ------------------------------------------------------------------------
ChunkStart ==
    /\ texto \in { <<n>> : n \in 0..MaxTextLen }
                 \cup { <<a, b, c>> : a \in RunLens, b \in RunLens, c \in RunLens }
    /\ \E cfg \in ChunkConfigs : chunk_size = cfg[1] /\ overlap = cfg[2]
    /\ inicio = 0
    /\ chunks = << >>
    /\ iter = 0
    /\ chunk_pc = "while"

\* the position a Python slice bound i stands for in a text of n characters
\* (a negative bound counts from the end)
SliceBound(i, n) == IF i < 0 THEN Max(n + i, 0) ELSE Min(i, n)

\* len(texto[ini:fin].strip())
ChunkStripLen(t, ini, fin) ==
    StripLen(t, SliceBound(ini, TextLen(t)), SliceBound(fin, TextLen(t)))

\* the chunk appended by one pass: its source range and its stripped length
ChunkDe(t, ini, fin) == [ini |-> ini, fin |-> fin, len |-> ChunkStripLen(t, ini, fin)]

\* the list after the "if len(chunk.strip()) >= MIN_CHUNK_LENGTH" of one pass
ChunksTrasPaso(cs, t, ini, fin) ==
    IF ChunkStripLen(t, ini, fin) >= MIN_CHUNK_LENGTH
    THEN Append(cs, ChunkDe(t, ini, fin))
    ELSE cs

\* a chunker that forgets the overlap when it advances
SiguienteInicio_SinSolape(fin, ov) == fin

\* a chunker that does not advance: the next pass starts where this one did
SiguienteInicio_SinAvance(fin, ov) == inicio

\* the start of the next pass
SiguienteInicio(fin, ov) == fin - ov

\* while inicio < texto_len: is false
ChunkSalir ==
    /\ chunk_pc = "while"
    /\ ~(inicio < TextLen(texto))
    /\ chunk_pc' = "return"
    /\ UNCHANGED <<texto, chunk_size, overlap, inicio, chunks, iter>>

\* one pass that ends at the end of the text: break
ChunkUltimo ==
    /\ chunk_pc = "while"
    /\ inicio < TextLen(texto)
    /\ iter < MaxIter
    /\ LET fin == Min(inicio + chunk_size, TextLen(texto))
       IN  /\ fin >= TextLen(texto)
           /\ chunks' = ChunksTrasPaso(chunks, texto, inicio, fin)
    /\ iter' = iter + 1
    /\ chunk_pc' = "return"
    /\ UNCHANGED <<texto, chunk_size, overlap, inicio>>

\* one pass that does not reach the end of the text: advance with overlap
ChunkPaso ==
    /\ chunk_pc = "while"
    /\ inicio < TextLen(texto)
    /\ iter < MaxIter
    /\ LET fin == Min(inicio + chunk_size, TextLen(texto))
       IN  /\ fin < TextLen(texto)
           /\ chunks' = ChunksTrasPaso(chunks, texto, inicio, fin)
           /\ inicio' = SiguienteInicio(fin, overlap)
    /\ iter' = iter + 1
    /\ UNCHANGED <<texto, chunk_size, overlap, chunk_pc>>

\* the chunker at rest, in the specifications that are not about it
ChunkIdle ==
    /\ texto = << >>
    /\ chunk_size = CHUNK_SIZE
    /\ overlap = CHUNK_OVERLAP
    /\ inicio = 0
    /\ chunks = << >>
    /\ iter = 0
    /\ chunk_pc = "return"

\* ------------------------------------------------------------------------
\* Fragment ids
\* ------------------------------------------------------------------------
\* longest page, in chunks, and most neighbours asked for on each side
MaxChunksPage == 5
MaxVecinos == 2

\* file names, two of them with the separators of the id inside
Archivos == {"spec.pdf", "spec.pdf_pag1.pdf", "spec.pdf_pag1_chunk1.pdf"}
Paginas == {0, 1, 11}

\* metadata.get('chunk', 0)
MetaChunk(meta) == IF "chunk" \in DOMAIN meta THEN meta.chunk ELSE 0

\* an indexer that numbers the pages from 1, as the citations do
IdIndexar_PaginaDesdeUno(archivo, i, chunk_idx) ==
    archivo \o "_pag" \o ToString(i + 1) \o "_chunk" \o ToString(chunk_idx)

\* id_doc of indexar_documentos
IdIndexar(archivo, i, chunk_idx) ==
    archivo \o "_pag" \o ToString(i) \o "_chunk" \o ToString(chunk_idx)

\* a metadata whose total counts one chunk more than the page has
MetadataIndexar_UnoMas(archivo, i, chunk_idx, total) ==
    [source |-> archivo, page |-> i, chunk |-> chunk_idx,
     total_chunks_in_page |-> total + 1]

\* the metadata indexar_documentos stores with a chunk
MetadataIndexar(archivo, i, chunk_idx, total) ==
    [source |-> archivo, page |-> i, chunk |-> chunk_idx,
     total_chunks_in_page |-> total]

\* what collection.add stores for one chunk
EntradaIndexar(archivo, i, chunk_idx, total) ==
    [id |-> IdIndexar(archivo, i, chunk_idx),
     metadata |-> MetadataIndexar(archivo, i, chunk_idx, total)]

\* chunk_id of the semantic search
IdSemantico(metadata) ==
    metadata.source \o "_pag" \o ToString(metadata.page)
        \o "_chunk" \o ToString(MetaChunk(metadata))

\* chunk_id of busqueda_por_keywords
IdKeyword(meta) ==
    meta.source \o "_pag" \o ToString(meta.page)
        \o "_chunk" \o ToString(MetaChunk(meta))

\* v_id of the neighbours read in ejecutar_chat
IdVecinoLeido(v_meta) ==
    v_meta.source \o "_pag" \o ToString(v_meta.page)
        \o "_chunk" \o ToString(MetaChunk(v_meta))

\* the id expandir_con_chunks_adyacentes builds for chunk number n
IdAdyacente(archivo, pagina, n) ==
    archivo \o "_pag" \o ToString(pagina) \o "_chunk" \o ToString(n)

\* the "Chunks anteriores" loop, from i on
RECURSIVE Anteriores(_, _, _)
Anteriores(metadata, i, n) ==
    IF i > n THEN << >>
    ELSE (IF MetaChunk(metadata) - i >= 0
          THEN <<IdAdyacente(metadata.source, metadata.page, MetaChunk(metadata) - i)>>
          ELSE << >>) \o Anteriores(metadata, i + 1, n)

\* an expander that accepts the chunk just past the end of the page
RECURSIVE Siguientes_UnoDeMas(_, _, _)
Siguientes_UnoDeMas(metadata, i, n) ==
    IF i > n THEN << >>
    ELSE (IF MetaChunk(metadata) + i <= metadata.total_chunks_in_page
          THEN <<IdAdyacente(metadata.source, metadata.page, MetaChunk(metadata) + i)>>
          ELSE << >>) \o Siguientes_UnoDeMas(metadata, i + 1, n)

\* the "Chunks siguientes" loop, from i on
RECURSIVE Siguientes(_, _, _)
Siguientes(metadata, i, n) ==
    IF i > n THEN << >>
    ELSE (IF MetaChunk(metadata) + i < metadata.total_chunks_in_page
          THEN <<IdAdyacente(metadata.source, metadata.page, MetaChunk(metadata) + i)>>
          ELSE << >>) \o Siguientes(metadata, i + 1, n)

\* expandir_con_chunks_adyacentes; chunk_id is not used by the code
ExpandirConChunksAdyacentes(chunk_id, metadata, n) ==
    Anteriores(metadata, 1, n)
        \o (IF "total_chunks_in_page" \in DOMAIN metadata
            THEN Siguientes(metadata, 1, n)
            ELSE << >>)

Triples ==
    [archivo : Archivos, i : Paginas, chunk_idx : 0..(MaxChunksPage - 1),
     total : 1..MaxChunksPage]

FragStart ==
    /\ frag_pc = "indexar"
    /\ trip_a \in { t \in Triples : t.chunk_idx < t.total }
    /\ trip_b \in { t \in Triples : t.chunk_idx \in {0, 1} /\ t.total = 2 }
    /\ n_vecinos \in 1..MaxVecinos
    /\ guardado_a = << >>
    /\ guardado_b = << >>
    /\ ids_a = << >>
    /\ ids_b = << >>
    /\ ids_adyacentes = << >>
    /\ ids_leidos = << >>

FragIdle ==
    /\ frag_pc = "fin"
    /\ trip_a = [archivo |-> "spec.pdf", i |-> 0, chunk_idx |-> 0, total |-> 1]
    /\ trip_b = [archivo |-> "spec.pdf", i |-> 0, chunk_idx |-> 0, total |-> 1]
    /\ n_vecinos = 1
    /\ guardado_a = << >>
    /\ guardado_b = << >>
    /\ ids_a = << >>
    /\ ids_b = << >>
    /\ ids_adyacentes = << >>
    /\ ids_leidos = << >>

\* indexar_documentos adds the two chunks to the collection
FragIndexar ==
    /\ frag_pc = "indexar"
    /\ guardado_a' = EntradaIndexar(trip_a.archivo, trip_a.i, trip_a.chunk_idx, trip_a.total)
    /\ guardado_b' = EntradaIndexar(trip_b.archivo, trip_b.i, trip_b.chunk_idx, trip_b.total)
    /\ frag_pc' = "buscar"
    /\ UNCHANGED <<trip_a, trip_b, n_vecinos, ids_a, ids_b, ids_adyacentes, ids_leidos>>

\* the ids the three searchers give to a stored fragment: the semantic and
\* the keyword search build them from the metadata, the exhaustive scan
\* takes the id of the store
IdsBusqueda(guardado) ==
    [semantico |-> IdSemantico(guardado.metadata),
     keyword |-> IdKeyword(guardado.metadata),
     exhaustivo |-> guardado.id]

FragBuscar ==
    /\ frag_pc = "buscar"
    /\ ids_a' = IdsBusqueda(guardado_a)
    /\ ids_b' = IdsBusqueda(guardado_b)
    /\ frag_pc' = "expandir"
    /\ UNCHANGED <<trip_a, trip_b, n_vecinos, guardado_a, guardado_b, ids_adyacentes, ids_leidos>>

FragExpandir ==
    /\ frag_pc = "expandir"
    /\ ids_adyacentes' =
           ExpandirConChunksAdyacentes(ids_a.semantico, guardado_a.metadata, n_vecinos)
    /\ frag_pc' = "leer"
    /\ UNCHANGED <<trip_a, trip_b, n_vecinos, guardado_a, guardado_b, ids_a, ids_b, ids_leidos>>

\* the chunks of the page of trip_a, as the indexer stored them
PaginaGuardada ==
    [c \in 0..(trip_a.total - 1) |->
        EntradaIndexar(trip_a.archivo, trip_a.i, c, trip_a.total)]

\* collection.get(ids=ids_vecinos): the stored chunks with one of the ids;
\* ejecutar_chat then builds v_id from the metadata of each
FragLeerVecinos ==
    /\ frag_pc = "leer"
    /\ ids_leidos' =
           { [pedido |-> PaginaGuardada[c].id,
              v_id |-> IdVecinoLeido(PaginaGuardada[c].metadata),
              chunk |-> c] :
               c \in { d \in DOMAIN PaginaGuardada :
                         \E k \in 1..Len(ids_adyacentes) :
                             ids_adyacentes[k] = PaginaGuardada[d].id } }
    /\ frag_pc' = "fin"
    /\ UNCHANGED <<trip_a, trip_b, n_vecinos, guardado_a, guardado_b, ids_a, ids_b, ids_adyacentes>>

\* ------------------------------------------------------------------------
\* The store
\* ------------------------------------------------------------------------
\* The text of a stored chunk is the set of its words.  What
\* indexar_documentos stores for the chunks of one page:
IndexarPagina(archivo, i, docs) ==
    [c \in 1..Len(docs) |->
        [id |-> IdIndexar(archivo, i, c - 1),
         doc |-> docs[c],
         metadata |-> MetadataIndexar(archivo, i, c - 1, Len(docs))]]

\* a collection indexed from one file with one page of three chunks
ColeccionA ==
    IndexarPagina("spec.pdf", 0,
                  <<{"Attention"}, {"attention", "SoftMax"}, {"gatos", "keys"}>>)

\* a collection in which no keyword of the questions asked is found
ColeccionC ==
    IndexarPagina("otro.pdf", 0, <<{"perros"}, {"casas"}, {"mesas", "sillas"}>>)

\* ------------------------------------------------------------------------
\* Scores
\* ------------------------------------------------------------------------
\* The scores of the code are floats; here they are exact fractions.
\* score_semantic and score_keyword count in units of 1 / EscalaRRF, where
\* EscalaRRF is the least common multiple of 61 .. 60 + MaxRank, so that every
\* 1 / (idx + 60) with idx <= MaxRank is a whole number of units; score_final
\* counts in units of 1 / (10 * EscalaRRF), so that the weights 0.6 and 0.4
\* are 6 and 4.
MaxRank == 3

RRF_K == 60
PESO_SEMANTICO == 6
PESO_KEYWORD == 4
\* 0.5 per match of the exhaustive scan, as a divisor
DIVISOR_EXHAUSTIVO == 2

RECURSIVE GCD(_, _)
GCD(a, b) == IF b = 0 THEN a ELSE GCD(b, a % b)

RECURSIVE LCMHasta(_)
LCMHasta(n) ==
    IF n = 0 THEN 1
    ELSE LET m == LCMHasta(n - 1) IN (m \div GCD(m, n + RRF_K)) * (n + RRF_K)

EscalaRRF == LCMHasta(MaxRank)

\* ranks counted from 0, as a plain enumerate would give them
RRF_DesdeCero(idx) == EscalaRRF \div (idx - 1 + RRF_K)

\* 1.0 / (idx + 60)
RRF(idx) == EscalaRRF \div (idx + RRF_K)

\* score_final has not been assigned: the key is not in the dict
SinScore == -1

\* float('inf') and any distance the store returns
DistInf == "inf"
DistStore == "dist"

\* ------------------------------------------------------------------------
\* Dicts keyed by chunk id, in insertion order, as sequences of entries
\* ------------------------------------------------------------------------
Pos(fd, id) ==
    IF \E k \in 1..Len(fd) : fd[k].id = id
    THEN CHOOSE k \in 1..Len(fd) : fd[k].id = id
    ELSE 0

\* ------------------------------------------------------------------------
\* realizar_busqueda_hibrida: the semantic search of one query variant
\* ------------------------------------------------------------------------
\* one (doc, distancia, metadata) of a result list, for the stored fragment f
ResultadoStore(f) == [doc |-> f.doc, metadata |-> f.metadata, distancia |-> DistStore]

\* an accumulation whose rank does not restart with each query variant
AcumularUno_SinReinicio(res, r, idx, n_query) ==
    LET chunk_id == IdSemantico(r.metadata)
        con == IF Pos(res, chunk_id) = 0
               THEN Append(res, [doc |-> r.doc, metadata |-> r.metadata,
                                 distancia |-> r.distancia, id |-> chunk_id,
                                 score_semantic |-> 0, score_keyword |-> 0,
                                 matches |-> << >>, query_matches |-> << >>,
                                 score_final |-> SinScore])
               ELSE res
        k == Pos(con, chunk_id)
    IN  [con EXCEPT ![k].score_semantic = @ + RRF(idx + n_query),
                    ![k].query_matches = Append(@, n_query + 1)]

\* one pass of "for idx, (doc, dist, meta) in enumerate(zip(...), 1)"
AcumularUno(res, r, idx, n_query) ==
    LET chunk_id == IdSemantico(r.metadata)
        con == IF Pos(res, chunk_id) = 0
               THEN Append(res, [doc |-> r.doc, metadata |-> r.metadata,
                                 distancia |-> r.distancia, id |-> chunk_id,
                                 score_semantic |-> 0, score_keyword |-> 0,
                                 matches |-> << >>, query_matches |-> << >>,
                                 score_final |-> SinScore])
               ELSE res
        k == Pos(con, chunk_id)
    IN  [con EXCEPT ![k].score_semantic = @ + RRF(idx),
                    ![k].query_matches = Append(@, n_query + 1)]

\* the loop over one result list, from position idx on
RECURSIVE AcumularSemantico(_, _, _, _)
AcumularSemantico(res, lista, idx, n_query) ==
    IF idx > Len(lista) THEN res
    ELSE AcumularSemantico(AcumularUno(res, lista[idx], idx, n_query), lista, idx + 1, n_query)

\* ------------------------------------------------------------------------
\* realizar_busqueda_hibrida: "Paso 3: Fusion de resultados"
\* ------------------------------------------------------------------------
\* a fusion that assigns the contribution of a keyword hit instead of
\* adding it
FusionarHit_Asigna(fd, result, idx) ==
    LET k == Pos(fd, result.id)
    IN  IF k > 0
        THEN [fd EXCEPT ![k].score_keyword = RRF(idx),
                        ![k].matches = Append(@, result.keyword_match)]
        ELSE Append(fd, [doc |-> result.doc, metadata |-> result.metadata,
                         distancia |-> result.distancia, id |-> result.id,
                         score_semantic |-> 0, score_keyword |-> RRF(idx),
                         matches |-> <<result.keyword_match>>,
                         query_matches |-> << >>, score_final |-> SinScore])

\* a fusion that counts a fragment once, at its first keyword hit
FusionarHit_SinRepetidos(fd, result, idx) ==
    LET k == Pos(fd, result.id)
    IN  IF k > 0
        THEN IF fd[k].matches # << >> THEN fd
             ELSE [fd EXCEPT ![k].score_keyword = @ + RRF(idx),
                             ![k].matches = Append(@, result.keyword_match)]
        ELSE Append(fd, [doc |-> result.doc, metadata |-> result.metadata,
                         distancia |-> result.distancia, id |-> result.id,
                         score_semantic |-> 0, score_keyword |-> RRF(idx),
                         matches |-> <<result.keyword_match>>,
                         query_matches |-> << >>, score_final |-> SinScore])

\* one pass of "for idx, result in enumerate(results_keyword, 1)"
FusionarHit(fd, result, idx) ==
    LET k == Pos(fd, result.id)
    IN  IF k > 0
        THEN [fd EXCEPT ![k].score_keyword = @ + RRF(idx),
                        ![k].matches = Append(@, result.keyword_match)]
        ELSE Append(fd, [doc |-> result.doc, metadata |-> result.metadata,
                         distancia |-> result.distancia, id |-> result.id,
                         score_semantic |-> 0, score_keyword |-> RRF(idx),
                         matches |-> <<result.keyword_match>>,
                         query_matches |-> << >>, score_final |-> SinScore])

RECURSIVE FusionKeywords(_, _, _)
FusionKeywords(fd, results_kw, idx) ==
    IF idx > Len(results_kw) THEN fd
    ELSE FusionKeywords(FusionarHit(fd, results_kw[idx], idx), results_kw, idx + 1)

\* frag['score_final'] = frag['score_semantic'] * 0.6 + frag['score_keyword'] * 0.4
ScoreFinal(frag) == frag.score_semantic * PESO_SEMANTICO + frag.score_keyword * PESO_KEYWORD

\* "for frag in fragmentos_data.values(): frag['score_final'] = ..."
CalcularScores(fd) == [k \in 1..Len(fd) |-> [fd[k] EXCEPT !.score_final = ScoreFinal(fd[k])]]

\* 0.5 * result['num_matches']
PuntosExhaustivos(num_matches) == (num_matches * EscalaRRF) \div DIVISOR_EXHAUSTIVO

\* one pass of "for idx, result in enumerate(resultados_exhaustivos)"
FusionarExhaustivo(fd, result) ==
    LET k == Pos(fd, result.id)
    IN  IF k > 0
        THEN [fd EXCEPT ![k].score_keyword = @ + PuntosExhaustivos(result.num_matches),
                        ![k].matches = @ \o result.matches]
        ELSE Append(fd, [doc |-> result.doc, metadata |-> result.metadata,
                         distancia |-> DistInf, id |-> result.id,
                         score_semantic |-> 0,
                         score_keyword |-> PuntosExhaustivos(result.num_matches),
                         matches |-> result.matches,
                         query_matches |-> << >>, score_final |-> SinScore])

RECURSIVE FusionExhaustivos(_, _, _)
FusionExhaustivos(fd, res_exh, idx) ==
    IF idx > Len(res_exh) THEN fd
    ELSE FusionExhaustivos(FusionarExhaustivo(fd, res_exh[idx]), res_exh, idx + 1)

\* an exhaustive step that forgets "Recalcular scores finales"
TrasExhaustiva_SinRecalcular(fd, res_exh) == FusionExhaustivos(fd, res_exh, 1)

\* the body of "if terminos_criticos:" once the scan has returned res_exh
TrasExhaustiva(fd, res_exh) == CalcularScores(FusionExhaustivos(fd, res_exh, 1))

\* fragmentos_data from the copy of all_semantic_results to the end of the
\* exhaustive step; hay_criticos is "terminos_criticos is not empty"
Fusion(sem, results_kw, hay_criticos, res_exh) ==
    LET fd == CalcularScores(FusionKeywords(sem, results_kw, 1))
    IN  IF hay_criticos THEN TrasExhaustiva(fd, res_exh) ELSE fd

\* ------------------------------------------------------------------------
\* sorted(..., key=score_final, reverse=True): stable, ties keep their order
\* ------------------------------------------------------------------------
\* a sort that forgets reverse=True
RECURSIVE InsertarOrdenado_Ascendente(_, _)
InsertarOrdenado_Ascendente(ord, e) ==
    IF ord = << >> THEN <<e>>
    ELSE IF Head(ord).score_final > e.score_final
         THEN <<e>> \o ord
         ELSE <<Head(ord)>> \o InsertarOrdenado_Ascendente(Tail(ord), e)

\* e goes after every entry whose score is not lower than its own
RECURSIVE InsertarOrdenado(_, _)
InsertarOrdenado(ord, e) ==
    IF ord = << >> THEN <<e>>
    ELSE IF Head(ord).score_final < e.score_final
         THEN <<e>> \o ord
         ELSE <<Head(ord)>> \o InsertarOrdenado(Tail(ord), e)

RECURSIVE OrdenarDesde(_, _, _)
OrdenarDesde(fd, k, ord) ==
    IF k > Len(fd) THEN ord
    ELSE OrdenarDesde(fd, k + 1, InsertarOrdenado(ord, fd[k]))

Ordenar(fd) == OrdenarDesde(fd, 1, << >>)

\* mejor_score
MejorScore(ranked) == IF ranked # << >> THEN ranked[1].score_final ELSE 0

\* ------------------------------------------------------------------------
\* busqueda_exhaustiva_texto, from the matches found in the batches read
\* ------------------------------------------------------------------------
MAX_RESULTS_EXHAUSTIVA == 20

\* resultados.sort(key=num_matches, reverse=True), stable
RECURSIVE InsertarPorMatches(_, _)
InsertarPorMatches(ord, e) ==
    IF ord = << >> THEN <<e>>
    ELSE IF Head(ord).num_matches < e.num_matches
         THEN <<e>> \o ord
         ELSE <<Head(ord)>> \o InsertarPorMatches(Tail(ord), e)

RECURSIVE OrdenarPorMatches(_, _, _)
OrdenarPorMatches(rs, k, ord) ==
    IF k > Len(rs) THEN ord
    ELSE OrdenarPorMatches(rs, k + 1, InsertarPorMatches(ord, rs[k]))

\* resultados[:max_results] after the sort
CortarExhaustivos(rs) ==
    LET ord == OrdenarPorMatches(rs, 1, << >>)
    IN  SubSeq(ord, 1, Min(Len(ord), MAX_RESULTS_EXHAUSTIVA))

\* the result the scan appends for stored fragment f with matches ms, a
\* sequence of critical terms
ResultadoExhaustivo(f, ms) ==
    [doc |-> f.doc, metadata |-> f.metadata, id |-> f.id,
     matches |-> ms, num_matches |-> Len(ms)]

\* ------------------------------------------------------------------------
\* The fusion as a function of its inputs
\* ------------------------------------------------------------------------
\* a keyword hit for stored fragment f
HitKeyword(f, kw) ==
    [doc |-> f.doc, metadata |-> f.metadata, distancia |-> DistStore,
     keyword_match |-> kw, id |-> IdKeyword(f.metadata)]

RECURSIVE SeqsInyectivas(_, _)
\* the sequences without repetition of at most n elements of S
SeqsInyectivas(S, n) ==
    IF n = 0 THEN {<< >>}
    ELSE {<< >>} \cup UNION { { <<x>> \o q : q \in SeqsInyectivas(S \ {x}, n - 1) } : x \in S }

RECURSIVE SeqsHasta(_, _)
\* the sequences of at most n elements of S
SeqsHasta(S, n) ==
    IF n = 0 THEN {<< >>}
    ELSE {<< >>} \cup { <<x>> \o q : x \in S, q \in SeqsHasta(S, n - 1) }

\* s with x inserted so that it becomes element number p
Insertar(s, p, x) == SubSeq(s, 1, p - 1) \o <<x>> \o SubSeq(s, p, Len(s))

\* the results of a scan in which fragment k of the collection matched
\* the first ms[k] of two critical terms
ExhaustivosDe(col, ms) ==
    LET terminos == <<"attention", "softmax">>
        RECURSIVE Desde(_)
        Desde(k) ==
            IF k > Len(col) THEN << >>
            ELSE (IF ms[k] > 0
                  THEN <<ResultadoExhaustivo(col[k], SubSeq(terminos, 1, ms[k]))>>
                  ELSE << >>) \o Desde(k + 1)
    IN  CortarExhaustivos(Desde(1))

FusStart ==
    /\ fus_pc = "inicio"
    /\ fus_sem \in { AcumularSemantico(<< >>, [k \in 1..Len(q) |-> ResultadoStore(ColeccionA[q[k]])], 1, 0) :
                       q \in SeqsInyectivas(1..Len(ColeccionA), 2) }
    /\ fus_kw \in { [k \in 1..Len(q) |-> HitKeyword(ColeccionA[q[k]], "kw")] :
                      q \in SeqsHasta(1..Len(ColeccionA), MaxRank - 1) }
    /\ fus_hit \in 1..Len(ColeccionA)
    /\ fus_pos \in 1..MaxRank
    /\ fus_pos <= Len(fus_kw) + 1
    /\ fus_exh \in [1..Len(ColeccionA) -> 0..1]
    /\ fus_frag \in 1..Len(ColeccionA)
    /\ fus_base = << >>
    /\ fus_mas_kw = << >>
    /\ fus_mas_exh = << >>

FusIdle ==
    /\ fus_pc = "fin"
    /\ fus_sem = << >>
    /\ fus_kw = << >>
    /\ fus_hit = 1
    /\ fus_pos = 1
    /\ fus_exh = << >>
    /\ fus_frag = 1
    /\ fus_base = << >>
    /\ fus_mas_kw = << >>
    /\ fus_mas_exh = << >>

\* the fusion of the drawn inputs
FusBase ==
    /\ fus_pc = "inicio"
    /\ fus_base' = Fusion(fus_sem, fus_kw, TRUE, ExhaustivosDe(ColeccionA, fus_exh))
    /\ fus_pc' = "mas_kw"
    /\ UNCHANGED <<fus_sem, fus_kw, fus_hit, fus_pos, fus_exh, fus_frag, fus_mas_kw, fus_mas_exh>>

\* the same with one more hit for fragment fus_hit at position fus_pos of
\* the keyword list
FusMasKeyword ==
    /\ fus_pc = "mas_kw"
    /\ fus_mas_kw' = Fusion(fus_sem,
                            Insertar(fus_kw, fus_pos, HitKeyword(ColeccionA[fus_hit], "kw")),
                            TRUE, ExhaustivosDe(ColeccionA, fus_exh))
    /\ fus_pc' = "mas_exh"
    /\ UNCHANGED <<fus_sem, fus_kw, fus_hit, fus_pos, fus_exh, fus_frag, fus_base, fus_mas_exh>>

\* the same as the first with one more critical term matched in fragment
\* fus_frag
FusMasExhaustivo ==
    /\ fus_pc = "mas_exh"
    /\ fus_mas_exh' = Fusion(fus_sem, fus_kw, TRUE,
                             ExhaustivosDe(ColeccionA, [fus_exh EXCEPT ![fus_frag] = @ + 1]))
    /\ fus_pc' = "fin"
    /\ UNCHANGED <<fus_sem, fus_kw, fus_hit, fus_pos, fus_exh, fus_frag, fus_base, fus_mas_kw>>

\* ------------------------------------------------------------------------
\* Strings: the Python string methods on the words of the model
\* ------------------------------------------------------------------------
\* str.lower()
Lower(w) ==
    CASE w = "QKV" -> "qkv"
      [] w = "Attention" -> "attention"
      [] w = "SoftMax" -> "softmax"
      [] OTHER -> w

\* str.upper(), for the keywords of the model
Upper(w) ==
    CASE w = "hola" -> "HOLA"
      [] w = "gatos" -> "GATOS"
      [] w = "attention" -> "ATTENTION"
      [] w = "query" -> "QUERY"
      [] w = "key" -> "KEY"
      [] w = "value" -> "VALUE"
      [] w = "softmax" -> "SOFTMAX"
      [] w = "scaled" -> "SCALED"
      [] w = "SoftMax" -> "SOFTMAX"
      [] OTHER -> w

\* str.capitalize(), for the keywords of the model
Capitalize(w) ==
    CASE w = "hola" -> "Hola"
      [] w = "gatos" -> "Gatos"
      [] w = "attention" -> "Attention"
      [] w = "query" -> "Query"
      [] w = "key" -> "Key"
      [] w = "value" -> "Value"
      [] w = "softmax" -> "Softmax"
      [] w = "scaled" -> "Scaled"
      [] w = "QKV" -> "Qkv"
      [] w = "SoftMax" -> "Softmax"
      [] OTHER -> w

\* str.title(): the keywords of the model are single words without hyphen
Title(w) == Capitalize(w)

\* str.strip of the punctuation of extraer_keywords
StripPunct(p) ==
    CASE p = "attention?" -> "attention"
      [] OTHER -> p

\* any(c.isupper() ...) or any(c.isdigit() ...) or '-' in palabra
EsTecnica(palabra) == palabra \in {"QKV", "Attention", "SoftMax"}

\* the order in which a list built from a set lists its elements: it
\* depends on the hashes of the strings, which are fixed for one process
\* and change from one process to the next; seed stands for the process
RECURSIVE ListaFija(_)
ListaFija(S) ==
    IF S = {} THEN << >>
    ELSE LET e == CHOOSE e \in S : TRUE IN <<e>> \o ListaFija(S \ {e})

Rotar(l, n) ==
    IF l = << >> THEN l
    ELSE SubSeq(l, (n % Len(l)) + 1, Len(l)) \o SubSeq(l, 1, n % Len(l))

\* an order that also depends on whether the previous question got an
\* answer: state of an earlier cycle leaking into the extraction
ListaDeSet_SegunPrevia(S, seed) == Rotar(ListaFija(S), seed + (IF generado THEN 1 ELSE 0))

\* list(set(...))
ListaDeSet(S, seed) == Rotar(ListaFija(S), seed)

Rango(l) == { l[k] : k \in 1..Len(l) }

\* [x for x in l if x in S]
RECURSIVE Filtrar(_, _)
Filtrar(l, S) ==
    IF l = << >> THEN << >>
    ELSE (IF Head(l) \in S THEN <<Head(l)>> ELSE << >>) \o Filtrar(Tail(l), S)

\* ------------------------------------------------------------------------
\* extraer_keywords
\* ------------------------------------------------------------------------
STOPWORDS ==
    {"el", "la", "de", "en", "y", "a", "los", "las", "un", "una", "por", "para",
     "con", "del", "que", "es", "son", "se", "al", "como", "más", "su", "me",
     "está", "hay", "tiene", "puede", "ser", "sobre", "entre", "también",
     "podrías", "decirme", "cuáles", "cómo", "qué", "indica", "indicar", "puedes",
     "tres", "dos", "estas", "estos", "principales", "llaman", "partes",
     "the", "in", "and", "of", "to", "is", "for", "on", "with", "as", "are",
     "this", "that", "it", "be", "or", "an", "by", "from", "at", "which"}

TERMINOS_EXPANSION ==
    ("transformer" :> <<"encoder", "decoder", "attention", "self-attention", "multi-head">>)
    @@ ("atención" :> <<"attention", "query", "key", "value", "QKV", "self-attention">>)
    @@ ("attention" :> <<"query", "key", "value", "QKV", "softmax", "scaled">>)
    @@ ("self-attention" :> <<"query", "key", "value", "auto-atención">>)
    @@ ("auto-atención" :> <<"query", "key", "value", "self-attention">>)
    @@ ("arquitectura" :> <<"encoder", "decoder", "capas", "layers", "bloques">>)
    @@ ("vectores" :> <<"query", "key", "value", "embedding", "proyección">>)
    @@ ("proyecta" :> <<"query", "key", "value", "matrices", "proyección">>)
    @@ ("encoder" :> <<"codificador", "encoding", "entrada">>)
    @@ ("decoder" :> <<"decodificador", "decoding", "salida">>)
    @@ ("llm" :> <<"modelo", "language", "model", "gpt", "transformer">>)
    @@ ("embedding" :> <<"vector", "representación", "vectorial">>)

\* the keywords before the expansion, as a set
KeywordsBase(palabras) ==
    { StripPunct(p) : p \in { q \in Rango(palabras) :
                                Len(q) > 3 /\ StripPunct(Lower(q)) \notin STOPWORDS } }
    \cup { Lower(StripPunct(t)) : t \in { q \in Rango(palabras) : EsTecnica(q) } }

\* the keywords with the related terms, as a set
KeywordsExpandidas(palabras) ==
    KeywordsBase(palabras)
    \cup UNION { Rango(TERMINOS_EXPANSION[Lower(kw)]) :
                   kw \in { k \in KeywordsBase(palabras) :
                              Lower(k) \in DOMAIN TERMINOS_EXPANSION } }

\* extraer_keywords(texto), texto.split() being palabras
ExtraerKeywords(palabras, seed) == ListaDeSet(KeywordsExpandidas(palabras), seed)

\* ------------------------------------------------------------------------
\* realizar_busqueda_hibrida: the query variants
\* ------------------------------------------------------------------------
TECNICOS_SEMANTICA ==
    {"transformer", "encoder", "decoder", "attention", "query", "key", "value",
     "self-attention", "auto-atención", "embedding", "softmax"}

TERMINOS_CRITICOS ==
    {"query", "key", "value", "encoder", "decoder", "attention", "self-attention",
     "transformer", "codificador", "decodificador", "auto-atención", "qkv",
     "softmax", "multi-head"}

\* [k for k in l if k.lower() in S]
RECURSIVE FiltrarLower(_, _)
FiltrarLower(l, S) ==
    IF l = << >> THEN << >>
    ELSE (IF Lower(Head(l)) \in S THEN <<Head(l)>> ELSE << >>) \o FiltrarLower(Tail(l), S)

\* [p for p in l if len(p) > n]
RECURSIVE MasLargasQue(_, _)
MasLargasQue(l, n) ==
    IF l = << >> THEN << >>
    ELSE (IF Len(Head(l)) > n THEN <<Head(l)>> ELSE << >>) \o MasLargasQue(Tail(l), n)

\* a slice that takes one element more
Primeros_UnoMas(l, n) == SubSeq(l, 1, Min(n + 1, Len(l)))

\* l[:n]
Primeros(l, n) == SubSeq(l, 1, Min(n, Len(l)))

\* queries, each variant as the list of its words
Queries(palabras, kws) ==
    <<palabras>>
    \o (IF Len(MasLargasQue(palabras, 4)) > 3
        THEN <<Primeros(MasLargasQue(palabras, 4), 5)>> ELSE << >>)
    \o (IF FiltrarLower(kws, TECNICOS_SEMANTICA) # << >>
        THEN <<Primeros(FiltrarLower(kws, TECNICOS_SEMANTICA), 5)>> ELSE << >>)

\* ------------------------------------------------------------------------
\* busqueda_por_keywords
\* ------------------------------------------------------------------------
N_RESULTADOS_SEMANTICOS == 25
N_RESULTADOS_KEYWORD == 20
MAX_KEYWORDS == 12
MIN_LEN_VARIANTE == 3

\* s is a substring of the word w
EsSubcadena(s, w) == s = w \/ <<s, w>> \in {<<"key", "keys">>}

\* where_document={"$contains": s}
Contiene(doc, s) == \E w \in doc : EsSubcadena(s, w)

\* variantes of one keyword_base
Variantes(keyword_base) ==
    {keyword_base, Lower(keyword_base), Upper(keyword_base),
     Capitalize(keyword_base), Title(keyword_base)}

\* the variants that are sent to the store
Consultables(keyword_base) == { v \in Variantes(keyword_base) : Len(v) >= MIN_LEN_VARIANTE }

\* the result lists the store can return for n results among the stored
\* fragments numbered in S: any order
ListasStore(S, n) ==
    { q \in SeqsInyectivas(S, Min(n, Cardinality(S))) : Len(q) = Min(n, Cardinality(S)) }

\* what the inner loop appends for one variant, for each answer of the store
HitsVariante(col, v, keyword_base) ==
    { [k \in 1..Len(q) |-> HitKeyword(col[q[k]], keyword_base)] :
        q \in ListasStore({ j \in 1..Len(col) : Contiene(col[j].doc, v) },
                          N_RESULTADOS_KEYWORD) }

\* what "for keyword in variantes" appends, the variants taken in order
RECURSIVE Emisiones(_, _, _)
Emisiones(col, variantes, keyword_base) ==
    IF variantes = << >> THEN {<< >>}
    ELSE { h \o r : h \in HitsVariante(col, Head(variantes), keyword_base),
                    r \in Emisiones(col, Tail(variantes), keyword_base) }

\* ------------------------------------------------------------------------
\* busqueda_exhaustiva_texto
\* ------------------------------------------------------------------------
BATCH_SIZE == 100

\* matches_encontrados for one document
MatchesDe(doc, terminos) == FiltrarLower(terminos, { Lower(w) : w \in doc })

\* resultados before the sort; the batches in fallidos raised and were skipped
RECURSIVE Escanear(_, _, _, _)
Escanear(col, terminos, fallidos, k) ==
    IF k > Len(col) THEN << >>
    ELSE (IF ((k - 1) \div BATCH_SIZE) \notin fallidos /\ MatchesDe(col[k].doc, terminos) # << >>
          THEN <<ResultadoExhaustivo(col[k], MatchesDe(col[k].doc, terminos))>>
          ELSE << >>) \o Escanear(col, terminos, fallidos, k + 1)

BusquedaExhaustivaTexto(terminos, col, fallidos) ==
    CortarExhaustivos(Escanear(col, terminos, fallidos, 1))

\* the numbers of the batches of a collection
Lotes(col) == { (k - 1) \div BATCH_SIZE : k \in 1..Len(col) }

\* ------------------------------------------------------------------------
\* ejecutar_chat
\* ------------------------------------------------------------------------
TOP_K_FINAL == 12
MAX_EXPANDIDOS == 6
\* UMBRAL_RELEVANCIA = 0.02, in hundredths
UMBRAL_RELEVANCIA_CENT == 2

\* external calls that may raise during one question, hash seeds, and the
\* longest answer of the store to a semantic query
MaxFallos == 1
MaxSemillas == 2
MaxSemanticos == 1
MaxListaSem == 2

\* the questions asked, each as pregunta.split()
Preguntas ==
    {<<"que", "es">>,
     <<"que", "es", "attention?">>,
     <<"sobre", "cuáles", "principales", "gatos", "softmax">>,
     <<"gatos", "SoftMax">>}

\* the inputs handled before the search: commands and the empty line
Comandos == {"stats", "ayuda", "docs", "temas", ""}

\* mejor_score < UMBRAL_RELEVANCIA, mejor_score in units of 1 / (10 * EscalaRRF)
BajoUmbral(score) == 10 * score < UMBRAL_RELEVANCIA_CENT * EscalaRRF

\* a gate that only looks at the list
Veredicto_SinUmbral(ranked, score) ==
    IF ranked = << >> THEN "info_no_encontrada" ELSE "generar"

\* "Verificar si hay resultados relevantes"
Veredicto(ranked, score) ==
    IF ranked = << >> THEN "info_no_encontrada"
    ELSE IF BajoUmbral(score) THEN "fuera_de_ambito"
    ELSE "generar"

\* the same loop without the test of ids_usados
RECURSIVE AgregarVecinos_SinFiltro(_, _, _)
AgregarVecinos_SinFiltro(r, vecinos, k) ==
    IF k > Len(vecinos) THEN r
    ELSE LET v_id == IdVecinoLeido(vecinos[k].metadata)
         IN  AgregarVecinos_SinFiltro(
                 [adic |-> Append(r.adic,
                                  [doc |-> vecinos[k].doc,
                                   metadata |-> vecinos[k].metadata,
                                   distancia |-> DistInf,
                                   score_final |-> 0,
                                   id |-> v_id]),
                  usados |-> r.usados \cup {v_id}],
                 vecinos, k + 1)

\* the loop over the neighbours read for one fragment; r is
\* [adic |-> chunks_adicionales, usados |-> ids_usados]
RECURSIVE AgregarVecinos(_, _, _)
AgregarVecinos(r, vecinos, k) ==
    IF k > Len(vecinos) THEN r
    ELSE LET v_id == IdVecinoLeido(vecinos[k].metadata)
         IN  AgregarVecinos(
                 IF v_id \notin r.usados
                 THEN [adic |-> Append(r.adic,
                                       [doc |-> vecinos[k].doc,
                                        metadata |-> vecinos[k].metadata,
                                        distancia |-> DistInf,
                                        score_final |-> 0,
                                        id |-> v_id]),
                       usados |-> r.usados \cup {v_id}]
                 ELSE r,
                 vecinos, k + 1)

\* collection.get(ids=ids): the stored fragments with one of the ids
RECURSIVE LeerPorIds(_, _, _)
LeerPorIds(col, ids, k) ==
    IF k > Len(col) THEN << >>
    ELSE (IF col[k].id \in ids THEN <<col[k]>> ELSE << >>) \o LeerPorIds(col, ids, k + 1)

\* the folders main can find and what the chunks of their files are
Carpetas == {<< >>, <<"spec.pdf">>}
ChunksDe(archivos) == IF archivos = << >> THEN << >> ELSE ColeccionA

\* main has opened the collection: it is new and empty, or it is the one an
\* earlier run indexed from the folder
ChatStart ==
    /\ chat_pc = "main"
    /\ archivos_pdf \in Carpetas
    /\ coleccion \in {<< >>, ChunksDe(archivos_pdf)}
    /\ semilla \in 0..(MaxSemillas - 1)
    /\ results_semantic = << >>
    /\ resultados_exhaustivos = << >>
    /\ hubo_previa = FALSE
    /\ entrada = << >>
    /\ queries = << >>
    /\ keywords_expandidas = << >>
    /\ q_idx = 0
    /\ all_semantic_results = << >>
    /\ kw_idx = 0
    /\ resultados_keyword = << >>
    /\ fragmentos_data = << >>
    /\ fragmentos_ranked = << >>
    /\ mejor_score = 0
    /\ fragmentos_finales = << >>
    /\ ids_usados = {}
    /\ chunks_adicionales = << >>
    /\ exp_idx = 0
    /\ resultado = "ninguno"
    /\ fallo = "ninguno"
    /\ fallos = 0
    /\ generado = FALSE

ChatIdle ==
    /\ chat_pc = "fin"
    /\ coleccion = << >>
    /\ archivos_pdf = << >>
    /\ results_semantic = << >>
    /\ resultados_exhaustivos = << >>
    /\ hubo_previa = FALSE
    /\ semilla = 0
    /\ entrada = << >>
    /\ queries = << >>
    /\ keywords_expandidas = << >>
    /\ q_idx = 0
    /\ all_semantic_results = << >>
    /\ kw_idx = 0
    /\ resultados_keyword = << >>
    /\ fragmentos_data = << >>
    /\ fragmentos_ranked = << >>
    /\ mejor_score = 0
    /\ fragmentos_finales = << >>
    /\ ids_usados = {}
    /\ chunks_adicionales = << >>
    /\ exp_idx = 0
    /\ resultado = "ninguno"
    /\ fallo = "ninguno"
    /\ fallos = 0
    /\ generado = FALSE

\* back at the head of "while True": the locals of the question that was
\* answered are dead, every one of them is assigned again before it is read
VolverAlInput ==
    /\ chat_pc' = "input"
    /\ hubo_previa' = TRUE
    /\ results_semantic' = << >>
    /\ resultados_exhaustivos' = << >>
    /\ queries' = << >>
    /\ keywords_expandidas' = << >>
    /\ q_idx' = 0
    /\ all_semantic_results' = << >>
    /\ kw_idx' = 0
    /\ resultados_keyword' = << >>
    /\ fragmentos_data' = << >>
    /\ fragmentos_ranked' = << >>
    /\ mejor_score' = 0
    /\ fragmentos_finales' = << >>
    /\ ids_usados' = {}
    /\ chunks_adicionales' = << >>
    /\ exp_idx' = 0

\* a main that indexes the folder again over a collection that has fragments
MainCargada_Reindexa ==
    /\ chat_pc = "main"
    /\ Len(coleccion) # 0
    /\ chat_pc' = "indexar"
    /\ UNCHANGED <<coleccion, archivos_pdf, hubo_previa, semilla, entrada, searchVars,
                   resultado, fallo, fallos, generado>>

\* "if collection.count() == 0" is false: the stored fragments are used
MainCargada ==
    /\ chat_pc = "main"
    /\ Len(coleccion) # 0
    /\ chat_pc' = "input"
    /\ UNCHANGED <<coleccion, archivos_pdf, hubo_previa, semilla, entrada, searchVars,
                   resultado, fallo, fallos, generado>>

\* "if collection.count() == 0": indexar_documentos is called
MainIndexar ==
    /\ chat_pc = "main"
    /\ Len(coleccion) = 0
    /\ chat_pc' = "indexar"
    /\ UNCHANGED <<coleccion, archivos_pdf, hubo_previa, semilla, entrada, searchVars,
                   resultado, fallo, fallos, generado>>

\* indexar_documentos and the test of its count: total_chunks fragments were
\* added, all of the file, or none when the file could not be read; with
\* none main returns
IndexarDocumentos ==
    /\ chat_pc = "indexar"
    /\ \E devuelto \in {0, Len(ChunksDe(archivos_pdf))} :
          /\ coleccion' = coleccion \o SubSeq(ChunksDe(archivos_pdf), 1, devuelto)
          /\ chat_pc' = IF devuelto > 0 THEN "input" ELSE "fin"
    /\ UNCHANGED <<archivos_pdf, hubo_previa, semilla, entrada, searchVars, resultado,
                   fallo, fallos, generado>>

\* 'salir', 'exit', 'quit', 'q'
ChatSalir ==
    /\ chat_pc = "input"
    /\ entrada' = <<"salir">>
    /\ chat_pc' = "fin"
    /\ UNCHANGED <<coleccion, archivos_pdf, hubo_previa, semilla, searchVars,
                   resultado, fallo, fallos, generado>>

\* commands that drop the first stored fragment
ChatComando_Borra ==
    /\ chat_pc = "input"
    /\ \E c \in Comandos : entrada' = <<c>>
    /\ entrada' # entrada
    /\ coleccion' = Tail(coleccion)
    /\ UNCHANGED <<chat_pc, archivos_pdf, hubo_previa, semilla, searchVars,
                   resultado, fallo, fallos, generado>>

\* stats, ayuda, docs, temas and the empty line: the loop continues
ChatComando ==
    /\ chat_pc = "input"
    /\ \E c \in Comandos : entrada' = <<c>>
    /\ entrada' # entrada
    /\ UNCHANGED <<chat_pc, coleccion, archivos_pdf, hubo_previa, semilla, searchVars,
                   resultado, fallo, fallos, generado>>

\* a question is read and realizar_busqueda_hibrida builds its variants
ChatPregunta ==
    /\ chat_pc = "input"
    /\ \E p \in Preguntas :
          /\ entrada' = p
          /\ keywords_expandidas' = ExtraerKeywords(p, semilla)
          /\ queries' = Queries(p, ExtraerKeywords(p, semilla))
    /\ q_idx' = 0
    /\ all_semantic_results' = << >>
    /\ results_semantic' = << >>
    /\ kw_idx' = 0
    /\ resultados_keyword' = << >>
    /\ resultados_exhaustivos' = << >>
    /\ fragmentos_data' = << >>
    /\ fragmentos_ranked' = << >>
    /\ mejor_score' = 0
    /\ fragmentos_finales' = << >>
    /\ ids_usados' = {}
    /\ chunks_adicionales' = << >>
    /\ exp_idx' = 0
    /\ resultado' = "ninguno"
    /\ fallo' = "ninguno"
    /\ fallos' = 0
    /\ generado' = FALSE
    /\ chat_pc' = "semantica"
    /\ UNCHANGED <<coleccion, archivos_pdf, hubo_previa, semilla>>

\* one pass of "for q_idx, query in enumerate(queries)": the embedding and
\* the query of the store answer
PasoSemantico(n) ==
    /\ chat_pc = "semantica"
    /\ q_idx < Len(queries)
    /\ \E q \in SeqsInyectivas(1..Len(coleccion), Min(N_RESULTADOS_SEMANTICOS, Min(n, MaxRank))) :
          LET lista == [k \in 1..Len(q) |-> ResultadoStore(coleccion[q[k]])]
          IN  /\ results_semantic' = Append(results_semantic, lista)
              /\ all_semantic_results' =
                     AcumularSemantico(all_semantic_results, lista, 1, q_idx)
    /\ q_idx' = q_idx + 1
    /\ chat_pc' = IF q_idx + 1 = Len(queries) THEN "keywords" ELSE "semantica"

\* the pass inside a whole session: the store answers with at most
\* MaxSemanticos fragments
ChatSemantica ==
    /\ PasoSemantico(MaxSemanticos)
    /\ UNCHANGED <<coleccion, archivos_pdf, hubo_previa, semilla, entrada, queries,
                   resultados_exhaustivos, keywords_expandidas, kw_idx,
                   resultados_keyword, fragmentos_data,
                   fragmentos_ranked, mejor_score, fragmentos_finales, ids_usados,
                   chunks_adicionales, exp_idx, resultado, fallo, fallos, generado>>

\* the pass in the specification of the semantic search alone: the store
\* answers with up to MaxListaSem fragments, so that ranks beyond 1 occur
ChatSemanticaLarga ==
    /\ PasoSemantico(MaxListaSem)
    /\ UNCHANGED <<coleccion, archivos_pdf, hubo_previa, semilla, entrada, queries,
                   resultados_exhaustivos, keywords_expandidas, kw_idx,
                   resultados_keyword, fragmentos_data,
                   fragmentos_ranked, mejor_score, fragmentos_finales, ids_usados,
                   chunks_adicionales, exp_idx, resultado, fallo, fallos, generado>>

\* ollama.embeddings or collection.query raises in that pass: nothing
\* catches it in realizar_busqueda_hibrida, ejecutar_chat or main
ChatSemanticaFalla ==
    /\ chat_pc = "semantica"
    /\ q_idx < Len(queries)
    /\ fallos < MaxFallos
    /\ \E f \in {"embedding", "consulta"} : fallo' = f
    /\ fallos' = fallos + 1
    /\ chat_pc' = "excepcion"
    /\ UNCHANGED <<coleccion, archivos_pdf, hubo_previa, semilla, entrada, searchVars,
                   resultado, generado>>

\* keywords[:12] of busqueda_por_keywords
KeywordsBuscadas == Primeros(keywords_expandidas, MAX_KEYWORDS)

\* one pass of "for keyword_base in keywords[:12]"; the queries of the
\* variants in fallidas raise and are skipped
PasoKeywords(fallidas) ==
    LET keyword_base == KeywordsBuscadas[kw_idx + 1]
        variantes == Filtrar(ListaDeSet(Variantes(keyword_base), semilla),
                             Consultables(keyword_base) \ fallidas)
    IN  /\ \E e \in Emisiones(coleccion, variantes, keyword_base) :
              /\ Len(resultados_keyword) + Len(e) <= MaxRank
              /\ resultados_keyword' = resultados_keyword \o e
        /\ kw_idx' = kw_idx + 1
        /\ chat_pc' = IF kw_idx + 1 = Len(KeywordsBuscadas) THEN "fusion" ELSE "keywords"

ChatKeywords ==
    /\ chat_pc = "keywords"
    /\ kw_idx < Len(KeywordsBuscadas)
    /\ PasoKeywords({})
    /\ UNCHANGED <<coleccion, archivos_pdf, hubo_previa, semilla, entrada, queries,
                   resultados_exhaustivos, keywords_expandidas, q_idx,
                   all_semantic_results, results_semantic, fragmentos_data,
                   fragmentos_ranked, mejor_score, fragmentos_finales, ids_usados,
                   chunks_adicionales, exp_idx, resultado, fallo, fallos, generado>>

\* the same with collection.query raising for some variants: except, pass
ChatKeywordsFalla ==
    /\ chat_pc = "keywords"
    /\ kw_idx < Len(KeywordsBuscadas)
    /\ \E fallidas \in SUBSET Consultables(KeywordsBuscadas[kw_idx + 1]) :
          /\ fallidas # {}
          /\ fallos + Cardinality(fallidas) <= MaxFallos
          /\ fallos' = fallos + Cardinality(fallidas)
          /\ PasoKeywords(fallidas)
    /\ fallo' = "keyword"
    /\ UNCHANGED <<coleccion, archivos_pdf, hubo_previa, semilla, entrada, queries,
                   resultados_exhaustivos, keywords_expandidas, q_idx,
                   all_semantic_results, results_semantic, fragmentos_data,
                   fragmentos_ranked, mejor_score, fragmentos_finales, ids_usados,
                   chunks_adicionales, exp_idx, resultado, generado>>

\* "if not keywords: return []"
ChatSinKeywords ==
    /\ chat_pc = "keywords"
    /\ keywords_expandidas = << >>
    /\ chat_pc' = "fusion"
    /\ UNCHANGED <<coleccion, archivos_pdf, hubo_previa, semilla, entrada, searchVars,
                   resultado, fallo, fallos, generado>>

\* "Paso 3: Fusion de resultados" and "Calcular score combinado"
ChatFusion ==
    /\ chat_pc = "fusion"
    /\ fragmentos_data' = CalcularScores(FusionKeywords(all_semantic_results, resultados_keyword, 1))
    /\ chat_pc' = "exhaustiva"
    /\ UNCHANGED <<coleccion, archivos_pdf, hubo_previa, semilla, entrada, queries,
                   resultados_exhaustivos, keywords_expandidas, q_idx,
                   all_semantic_results, results_semantic, kw_idx, resultados_keyword, fragmentos_ranked, mejor_score,
                   fragmentos_finales, ids_usados, chunks_adicionales, exp_idx,
                   resultado, fallo, fallos, generado>>

\* terminos_criticos
TerminosCriticos == FiltrarLower(keywords_expandidas, TERMINOS_CRITICOS)

\* the end of realizar_busqueda_hibrida once fd is final: sort and return
Devolver(fd) ==
    /\ fragmentos_data' = fd
    /\ fragmentos_ranked' = Ordenar(fd)
    /\ mejor_score' = MejorScore(Ordenar(fd))
    /\ chat_pc' = "gate"

\* no critical term: the exhaustive search is skipped
ChatSinCriticos ==
    /\ chat_pc = "exhaustiva"
    /\ TerminosCriticos = << >>
    /\ Devolver(fragmentos_data)
    /\ UNCHANGED <<coleccion, archivos_pdf, hubo_previa, semilla, entrada, queries,
                   resultados_exhaustivos, keywords_expandidas, q_idx,
                   all_semantic_results, results_semantic, kw_idx, resultados_keyword, fragmentos_finales, ids_usados,
                   chunks_adicionales, exp_idx, resultado, fallo, fallos, generado>>

\* the exhaustive search with every batch read
ChatExhaustiva ==
    /\ chat_pc = "exhaustiva"
    /\ TerminosCriticos # << >>
    /\ resultados_exhaustivos' = BusquedaExhaustivaTexto(TerminosCriticos, coleccion, {})
    /\ Devolver(TrasExhaustiva(fragmentos_data,
                               BusquedaExhaustivaTexto(TerminosCriticos, coleccion, {})))
    /\ UNCHANGED <<coleccion, archivos_pdf, hubo_previa, semilla, entrada, queries,
                   keywords_expandidas, q_idx, all_semantic_results, results_semantic,
                   kw_idx, resultados_keyword, fragmentos_finales,
                   ids_usados, chunks_adicionales, exp_idx, resultado, fallo, fallos,
                   generado>>

\* collection.get raises for some batches: except, pass
ChatExhaustivaFallaLote ==
    /\ chat_pc = "exhaustiva"
    /\ TerminosCriticos # << >>
    /\ \E fallidos \in SUBSET Lotes(coleccion) :
          /\ fallidos # {}
          /\ fallos + Cardinality(fallidos) <= MaxFallos
          /\ fallos' = fallos + Cardinality(fallidos)
          /\ resultados_exhaustivos' =
                 BusquedaExhaustivaTexto(TerminosCriticos, coleccion, fallidos)
          /\ Devolver(TrasExhaustiva(fragmentos_data,
                                     BusquedaExhaustivaTexto(TerminosCriticos, coleccion, fallidos)))
    /\ fallo' = "lote"
    /\ UNCHANGED <<coleccion, archivos_pdf, hubo_previa, semilla, entrada, queries,
                   keywords_expandidas, q_idx, all_semantic_results, results_semantic,
                   kw_idx, resultados_keyword, fragmentos_finales,
                   ids_usados, chunks_adicionales, exp_idx, resultado, generado>>

\* collection.count() of busqueda_exhaustiva_texto raises, outside its try
ChatExhaustivaFallaCount ==
    /\ chat_pc = "exhaustiva"
    /\ TerminosCriticos # << >>
    /\ fallos < MaxFallos
    /\ fallos' = fallos + 1
    /\ fallo' = "count"
    /\ chat_pc' = "excepcion"
    /\ UNCHANGED <<coleccion, archivos_pdf, hubo_previa, semilla, entrada, searchVars,
                   resultado, generado>>

\* "if not fragmentos_ranked": message and continue
ChatSinInformacion ==
    /\ chat_pc = "gate"
    /\ Veredicto(fragmentos_ranked, mejor_score) = "info_no_encontrada"
    /\ resultado' = "info_no_encontrada"
    /\ VolverAlInput
    /\ UNCHANGED <<coleccion, archivos_pdf, semilla, entrada, fallo, fallos, generado>>

\* "if mejor_score < UMBRAL_RELEVANCIA": message and continue
ChatFueraDeAmbito ==
    /\ chat_pc = "gate"
    /\ Veredicto(fragmentos_ranked, mejor_score) = "fuera_de_ambito"
    /\ resultado' = "fuera_de_ambito"
    /\ VolverAlInput
    /\ UNCHANGED <<coleccion, archivos_pdf, semilla, entrada, fallo, fallos, generado>>

\* "Seleccionar fragmentos finales"
ChatSeleccionar ==
    /\ chat_pc = "gate"
    /\ Veredicto(fragmentos_ranked, mejor_score) = "generar"
    /\ resultado' = "generar"
    /\ fragmentos_finales' = Primeros(fragmentos_ranked, TOP_K_FINAL)
    /\ ids_usados' = { f.id : f \in Rango(Primeros(fragmentos_ranked, TOP_K_FINAL)) }
    /\ chunks_adicionales' = << >>
    /\ exp_idx' = 0
    /\ chat_pc' = IF "chunk" \in DOMAIN fragmentos_ranked[1].metadata
                  THEN "expandir" ELSE "generar"
    /\ UNCHANGED <<coleccion, archivos_pdf, hubo_previa, semilla, entrada, queries,
                   resultados_exhaustivos, keywords_expandidas, q_idx,
                   all_semantic_results, results_semantic, kw_idx, resultados_keyword, fragmentos_data, fragmentos_ranked, mejor_score,
                   fallo, fallos, generado>>

\* fragmentos_finales[:6], taken before the list is extended
NumExpandidos == Min(MAX_EXPANDIDOS, Len(fragmentos_finales))

\* the end of one pass of "for frag in fragmentos_finales[:6]" that leaves
\* r; after the last pass the additional chunks are appended
FinPasoExpandir(r) ==
    /\ chunks_adicionales' = r.adic
    /\ ids_usados' = r.usados
    /\ exp_idx' = exp_idx + 1
    /\ IF exp_idx + 1 = NumExpandidos
       THEN /\ fragmentos_finales' = fragmentos_finales \o r.adic
            /\ chat_pc' = "generar"
       ELSE UNCHANGED <<fragmentos_finales, chat_pc>>

\* ids_vecinos of the fragment of this pass
IdsVecinos ==
    ExpandirConChunksAdyacentes(fragmentos_finales[exp_idx + 1].id,
                                fragmentos_finales[exp_idx + 1].metadata, 1)

\* one pass in which the neighbours, if any, are read
ChatExpandir ==
    /\ chat_pc = "expandir"
    /\ exp_idx < NumExpandidos
    /\ FinPasoExpandir(
           AgregarVecinos([adic |-> chunks_adicionales, usados |-> ids_usados],
                          LeerPorIds(coleccion, Rango(IdsVecinos), 1), 1))
    /\ UNCHANGED <<coleccion, archivos_pdf, hubo_previa, semilla, entrada, queries,
                   resultados_exhaustivos, keywords_expandidas, q_idx,
                   all_semantic_results, results_semantic, kw_idx, resultados_keyword, fragmentos_data, fragmentos_ranked, mejor_score,
                   resultado, fallo, fallos, generado>>

\* a failed read that gives up the whole expansion: the fragments go to the
\* generation with the neighbours added so far and no more passes
ChatExpandirFalla_Aborta ==
    /\ chat_pc = "expandir"
    /\ exp_idx < NumExpandidos
    /\ IdsVecinos # << >>
    /\ fallos < MaxFallos
    /\ fallos' = fallos + 1
    /\ fallo' = "vecinos"
    /\ fragmentos_finales' = fragmentos_finales \o chunks_adicionales
    /\ chat_pc' = "generar"
    /\ UNCHANGED <<coleccion, archivos_pdf, hubo_previa, semilla, entrada, queries,
                   resultados_exhaustivos, keywords_expandidas, q_idx,
                   all_semantic_results, results_semantic, kw_idx, resultados_keyword,
                   fragmentos_data, fragmentos_ranked, mejor_score, chunks_adicionales,
                   ids_usados, exp_idx, resultado, generado>>

\* one pass in which collection.get raises: except, pass
ChatExpandirFalla ==
    /\ chat_pc = "expandir"
    /\ exp_idx < NumExpandidos
    /\ IdsVecinos # << >>
    /\ fallos < MaxFallos
    /\ fallos' = fallos + 1
    /\ fallo' = "vecinos"
    /\ FinPasoExpandir([adic |-> chunks_adicionales, usados |-> ids_usados])
    /\ UNCHANGED <<coleccion, archivos_pdf, hubo_previa, semilla, entrada, queries,
                   resultados_exhaustivos, keywords_expandidas, q_idx,
                   all_semantic_results, results_semantic, kw_idx, resultados_keyword, fragmentos_data, fragmentos_ranked, mejor_score,
                   resultado, generado>>

\* generar_respuesta returns and the loop asks again
ChatGenerar ==
    /\ chat_pc = "generar"
    /\ generado' = TRUE
    /\ VolverAlInput
    /\ UNCHANGED <<coleccion, archivos_pdf, semilla, entrada, resultado, fallo, fallos>>

\* ollama.generate raises
ChatGenerarFalla ==
    /\ chat_pc = "generar"
    /\ fallos < MaxFallos
    /\ fallos' = fallos + 1
    /\ fallo' = "generar"
    /\ generado' = TRUE
    /\ chat_pc' = "excepcion"
    /\ UNCHANGED <<coleccion, archivos_pdf, hubo_previa, semilla, entrada, searchVars,
                   resultado>>

\* ------------------------------------------------------------------------
\* ejecutar_chat from the return of realizar_busqueda_hibrida on, with more
\* ranked fragments than it selects
\* ------------------------------------------------------------------------
\* the chunks of the page and the longest ranked list
MaxRanked == 14

\* a collection indexed from one file with one page of MaxRanked chunks
ColeccionB ==
    IndexarPagina("spec.pdf", 1, [c \in 1..MaxRanked |-> {"attention"}])

\* orders in which the fragments can be ranked: that of the page, the
\* reverse, and the even chunks before the odd ones
OrdenRanked(orden, p) ==
    CASE orden = "pagina" -> p
      [] orden = "inversa" -> MaxRanked + 1 - p
      [] orden = "pares" -> IF p <= (MaxRanked + 1) \div 2
                            THEN 2 * p - 1
                            ELSE 2 * (p - (MaxRanked + 1) \div 2)

\* a ranked list of n fragments as realizar_busqueda_hibrida returns it for
\* fragments the exhaustive search found: every id once, score_final from
\* the two scores and not increasing
RankedDe(n, orden, desde) ==
    [k \in 1..n |->
        LET f == ColeccionB[OrdenRanked(orden, ((desde + k - 1) % MaxRanked) + 1)]
            kw == PuntosExhaustivos(1) + RRF(1) * (n - k)
        IN  [doc |-> f.doc, metadata |-> f.metadata, distancia |-> DistInf,
             id |-> f.id, score_semantic |-> 0, score_keyword |-> kw,
             matches |-> <<"attention">>, query_matches |-> << >>,
             score_final |-> PESO_KEYWORD * kw]]

SelStart ==
    /\ chat_pc = "gate"
    /\ coleccion = ColeccionB
    /\ archivos_pdf = <<"spec.pdf">>
    /\ semilla = 0
    /\ entrada = <<"que", "es", "attention?">>
    /\ keywords_expandidas = ExtraerKeywords(entrada, semilla)
    /\ queries = Queries(entrada, keywords_expandidas)
    /\ q_idx = Len(queries)
    /\ all_semantic_results = << >>
    /\ results_semantic = [k \in 1..Len(queries) |-> << >>]
    /\ kw_idx = Len(KeywordsBuscadas)
    /\ resultados_keyword = << >>
    /\ \E n \in 0..MaxRanked, orden \in {"pagina", "inversa", "pares"}, desde \in 0..3 :
          /\ fragmentos_ranked = RankedDe(n, orden, desde)
          /\ fragmentos_data = RankedDe(n, orden, desde)
          /\ resultados_exhaustivos =
                 [k \in 1..n |->
                     ResultadoExhaustivo(
                         ColeccionB[OrdenRanked(orden, ((desde + k - 1) % MaxRanked) + 1)],
                         <<"attention">>)]
    /\ mejor_score = MejorScore(fragmentos_ranked)
    /\ fragmentos_finales = << >>
    /\ ids_usados = {}
    /\ chunks_adicionales = << >>
    /\ exp_idx = 0
    /\ resultado = "ninguno"
    /\ fallo = "ninguno"
    /\ fallos = 0
    /\ generado = FALSE
    /\ hubo_previa = FALSE

\* ------------------------------------------------------------------------
\* indexar_documentos, one action per file opened, page read and chunk added
\* ------------------------------------------------------------------------
\* most chunks of a page
MaxChunksIdx == 3

\* the pages of a file, one or two, each as the number of chunks
\* dividir_en_chunks gives for its text (0 for a page without text or with
\* a text too short)
PaginasIdx ==
    UNION { [1..n -> 0..MaxChunksIdx] : n \in 1..2 }

\* the folders: no PDF, one file, two files
CarpetasIdx ==
    {<< >>}
    \cup { <<[nombre |-> "a.pdf", paginas |-> p]>> : p \in PaginasIdx }
    \cup { <<[nombre |-> "a.pdf", paginas |-> p], [nombre |-> "b.pdf", paginas |-> q]>> :
             p \in PaginasIdx, q \in PaginasIdx }

\* the collection is new and empty, and indexar_documentos has listed the
\* folder
IdxStart ==
    /\ idx_pc = "archivo"
    /\ carpeta \in CarpetasIdx
    /\ n_archivo = 1
    /\ n_pagina = 0
    /\ idx_chunk = 0
    /\ total_chunks = 0
    /\ paginas_fallidas = {}

IdxIdle ==
    /\ idx_pc = "return"
    /\ carpeta = << >>
    /\ n_archivo = 1
    /\ n_pagina = 0
    /\ idx_chunk = 0
    /\ total_chunks = 0
    /\ paginas_fallidas = {}

\* "if not archivos_pdf: return 0" and the end of "for archivo in archivos_pdf"
IdxReturn ==
    /\ idx_pc = "archivo"
    /\ n_archivo > Len(carpeta)
    /\ idx_pc' = "return"
    /\ UNCHANGED <<carpeta, n_archivo, n_pagina, idx_chunk, total_chunks,
                   paginas_fallidas, chatVars>>

\* reader = PdfReader(archivo)
IdxAbrir ==
    /\ idx_pc = "archivo"
    /\ n_archivo <= Len(carpeta)
    /\ idx_pc' = "pagina"
    /\ n_pagina' = 0
    /\ UNCHANGED <<carpeta, n_archivo, idx_chunk, total_chunks, paginas_fallidas,
                   chatVars>>

\* PdfReader raises: except, and the next file
IdxAbrirFalla ==
    /\ idx_pc = "archivo"
    /\ n_archivo <= Len(carpeta)
    /\ n_archivo' = n_archivo + 1
    /\ UNCHANGED <<idx_pc, carpeta, n_pagina, idx_chunk, total_chunks,
                   paginas_fallidas, chatVars>>

\* one step of "for i, page in enumerate(reader.pages)": the pages are over,
\* or the page gives no chunk, or its chunks are about to be added
IdxPagina ==
    /\ idx_pc = "pagina"
    /\ LET paginas == carpeta[n_archivo].paginas
       IN  IF n_pagina >= Len(paginas)
           THEN /\ idx_pc' = "archivo"
                /\ n_archivo' = n_archivo + 1
                /\ UNCHANGED <<n_pagina, idx_chunk>>
           ELSE IF paginas[n_pagina + 1] = 0
           THEN /\ n_pagina' = n_pagina + 1
                /\ UNCHANGED <<idx_pc, n_archivo, idx_chunk>>
           ELSE /\ idx_pc' = "chunk"
                /\ idx_chunk' = 0
                /\ UNCHANGED <<n_archivo, n_pagina>>
    /\ UNCHANGED <<carpeta, total_chunks, paginas_fallidas, chatVars>>

\* one pass of "for chunk_idx, chunk in enumerate(chunks)": the embedding is
\* computed and the chunk is added
IdxAgregar ==
    /\ idx_pc = "chunk"
    /\ LET total == carpeta[n_archivo].paginas[n_pagina + 1]
       IN  /\ coleccion' = Append(coleccion,
                                  EntradaIndexar(carpeta[n_archivo].nombre, n_pagina,
                                                 idx_chunk, total))
           /\ IF idx_chunk + 1 = total
              THEN /\ idx_pc' = "pagina"
                   /\ n_pagina' = n_pagina + 1
                   /\ UNCHANGED idx_chunk
              ELSE /\ idx_chunk' = idx_chunk + 1
                   /\ UNCHANGED <<idx_pc, n_pagina>>
    /\ total_chunks' = total_chunks + 1
    /\ UNCHANGED <<carpeta, n_archivo, paginas_fallidas>>
    /\ UNCHANGED <<chat_pc, archivos_pdf, semilla, entrada, searchVars, resultado,
                   fallo, fallos, generado, hubo_previa>>

\* ollama.embeddings or collection.add raises: the except of the file, and
\* the next file
IdxAgregarFalla ==
    /\ idx_pc = "chunk"
    /\ paginas_fallidas' = paginas_fallidas \cup {<<carpeta[n_archivo].nombre, n_pagina>>}
    /\ idx_pc' = "archivo"
    /\ n_archivo' = n_archivo + 1
    /\ UNCHANGED <<carpeta, n_pagina, idx_chunk, total_chunks, chatVars>>

InitIndexar == IdxStart /\ ChunkIdle /\ FragIdle /\ FusIdle /\ ChatIdle

NextIndexar ==
    \/ IdxReturn /\ UNCHANGED <<chunkVars, fragVars, fusVars>>
    \/ IdxAbrir /\ UNCHANGED <<chunkVars, fragVars, fusVars>>
    \/ IdxAbrirFalla /\ UNCHANGED <<chunkVars, fragVars, fusVars>>
    \/ IdxPagina /\ UNCHANGED <<chunkVars, fragVars, fusVars>>
    \/ IdxAgregar /\ UNCHANGED <<chunkVars, fragVars, fusVars>>
    \/ IdxAgregarFalla /\ UNCHANGED <<chunkVars, fragVars, fusVars>>

SpecIndexar == InitIndexar /\ [][NextIndexar]_vars

InitChunk == ChunkStart /\ FragIdle /\ FusIdle /\ ChatIdle /\ IdxIdle

NextChunk ==
    \/ ChunkSalir /\ UNCHANGED <<fragVars, fusVars, chatVars, idxVars>>
    \/ ChunkUltimo /\ UNCHANGED <<fragVars, fusVars, chatVars, idxVars>>
    \/ ChunkPaso /\ UNCHANGED <<fragVars, fusVars, chatVars, idxVars>>

SpecChunk == InitChunk /\ [][NextChunk]_vars

\* the loop is sequential code: a pass that can run does run
SpecChunkFair == SpecChunk /\ WF_vars(NextChunk)

InitFrag == FragStart /\ ChunkIdle /\ FusIdle /\ ChatIdle /\ IdxIdle

NextFrag ==
    \/ FragIndexar /\ UNCHANGED <<chunkVars, fusVars, chatVars, idxVars>>
    \/ FragBuscar /\ UNCHANGED <<chunkVars, fusVars, chatVars, idxVars>>
    \/ FragExpandir /\ UNCHANGED <<chunkVars, fusVars, chatVars, idxVars>>
    \/ FragLeerVecinos /\ UNCHANGED <<chunkVars, fusVars, chatVars, idxVars>>

SpecFrag == InitFrag /\ [][NextFrag]_vars

InitFusion == FusStart /\ ChunkIdle /\ FragIdle /\ ChatIdle /\ IdxIdle

NextFusion ==
    \/ FusBase /\ UNCHANGED <<chunkVars, fragVars, chatVars, idxVars>>
    \/ FusMasKeyword /\ UNCHANGED <<chunkVars, fragVars, chatVars, idxVars>>
    \/ FusMasExhaustivo /\ UNCHANGED <<chunkVars, fragVars, chatVars, idxVars>>

SpecFusion == InitFusion /\ [][NextFusion]_vars

Init == ChatStart /\ ChunkIdle /\ FragIdle /\ FusIdle /\ IdxIdle

Next ==
    \/ MainCargada /\ UNCHANGED <<chunkVars, fragVars, fusVars, idxVars>>
    \/ MainIndexar /\ UNCHANGED <<chunkVars, fragVars, fusVars, idxVars>>
    \/ IndexarDocumentos /\ UNCHANGED <<chunkVars, fragVars, fusVars, idxVars>>
    \/ ChatSalir /\ UNCHANGED <<chunkVars, fragVars, fusVars, idxVars>>
    \/ ChatComando /\ UNCHANGED <<chunkVars, fragVars, fusVars, idxVars>>
    \/ ChatPregunta /\ UNCHANGED <<chunkVars, fragVars, fusVars, idxVars>>
    \/ ChatSemantica /\ UNCHANGED <<chunkVars, fragVars, fusVars, idxVars>>
    \/ ChatSemanticaFalla /\ UNCHANGED <<chunkVars, fragVars, fusVars, idxVars>>
    \/ ChatKeywords /\ UNCHANGED <<chunkVars, fragVars, fusVars, idxVars>>
    \/ ChatKeywordsFalla /\ UNCHANGED <<chunkVars, fragVars, fusVars, idxVars>>
    \/ ChatSinKeywords /\ UNCHANGED <<chunkVars, fragVars, fusVars, idxVars>>
    \/ ChatFusion /\ UNCHANGED <<chunkVars, fragVars, fusVars, idxVars>>
    \/ ChatSinCriticos /\ UNCHANGED <<chunkVars, fragVars, fusVars, idxVars>>
    \/ ChatExhaustiva /\ UNCHANGED <<chunkVars, fragVars, fusVars, idxVars>>
    \/ ChatExhaustivaFallaLote /\ UNCHANGED <<chunkVars, fragVars, fusVars, idxVars>>
    \/ ChatExhaustivaFallaCount /\ UNCHANGED <<chunkVars, fragVars, fusVars, idxVars>>
    \/ ChatSinInformacion /\ UNCHANGED <<chunkVars, fragVars, fusVars, idxVars>>
    \/ ChatFueraDeAmbito /\ UNCHANGED <<chunkVars, fragVars, fusVars, idxVars>>
    \/ ChatSeleccionar /\ UNCHANGED <<chunkVars, fragVars, fusVars, idxVars>>
    \/ ChatExpandir /\ UNCHANGED <<chunkVars, fragVars, fusVars, idxVars>>
    \/ ChatExpandirFalla /\ UNCHANGED <<chunkVars, fragVars, fusVars, idxVars>>
    \/ ChatGenerar /\ UNCHANGED <<chunkVars, fragVars, fusVars, idxVars>>
    \/ ChatGenerarFalla /\ UNCHANGED <<chunkVars, fragVars, fusVars, idxVars>>

Spec == Init /\ [][Next]_vars

\* one retrieval with longer answers to the semantic queries, up to the
\* gate: realizar_busqueda_hibrida has built the variants of a question and
\* is about to query the store for the first; the store is the usual one or
\* one that holds none of the keywords
InitSemantica ==
    /\ chat_pc = "semantica"
    /\ coleccion \in {ColeccionA, ColeccionC}
    /\ archivos_pdf = <<"spec.pdf">>
    /\ semilla = 0
    /\ entrada \in Preguntas
    /\ keywords_expandidas = ExtraerKeywords(entrada, semilla)
    /\ queries = Queries(entrada, keywords_expandidas)
    /\ q_idx = 0
    /\ all_semantic_results = << >>
    /\ results_semantic = << >>
    /\ kw_idx = 0
    /\ resultados_keyword = << >>
    /\ resultados_exhaustivos = << >>
    /\ fragmentos_data = << >>
    /\ fragmentos_ranked = << >>
    /\ mejor_score = 0
    /\ fragmentos_finales = << >>
    /\ ids_usados = {}
    /\ chunks_adicionales = << >>
    /\ exp_idx = 0
    /\ resultado = "ninguno"
    /\ fallo = "ninguno"
    /\ fallos = 0
    /\ generado = FALSE
    /\ hubo_previa = FALSE
    /\ ChunkIdle /\ FragIdle /\ FusIdle /\ IdxIdle

NextSemantica ==
    \/ ChatSemanticaLarga /\ UNCHANGED <<chunkVars, fragVars, fusVars, idxVars>>
    \/ ChatSemanticaFalla /\ UNCHANGED <<chunkVars, fragVars, fusVars, idxVars>>
    \/ ChatKeywords /\ UNCHANGED <<chunkVars, fragVars, fusVars, idxVars>>
    \/ ChatSinKeywords /\ UNCHANGED <<chunkVars, fragVars, fusVars, idxVars>>
    \/ ChatFusion /\ UNCHANGED <<chunkVars, fragVars, fusVars, idxVars>>
    \/ ChatSinCriticos /\ UNCHANGED <<chunkVars, fragVars, fusVars, idxVars>>
    \/ ChatExhaustiva /\ UNCHANGED <<chunkVars, fragVars, fusVars, idxVars>>
    \/ ChatSinInformacion /\ UNCHANGED <<chunkVars, fragVars, fusVars, idxVars>>
    \/ ChatFueraDeAmbito /\ UNCHANGED <<chunkVars, fragVars, fusVars, idxVars>>
    \/ ChatSeleccionar /\ UNCHANGED <<chunkVars, fragVars, fusVars, idxVars>>

SpecSemantica == InitSemantica /\ [][NextSemantica]_vars

InitSeleccion == SelStart /\ ChunkIdle /\ FragIdle /\ FusIdle /\ IdxIdle

NextSeleccion ==
    \/ ChatSinInformacion /\ UNCHANGED <<chunkVars, fragVars, fusVars, idxVars>>
    \/ ChatSeleccionar /\ UNCHANGED <<chunkVars, fragVars, fusVars, idxVars>>
    \/ ChatExpandir /\ UNCHANGED <<chunkVars, fragVars, fusVars, idxVars>>
    \/ ChatExpandirFalla /\ UNCHANGED <<chunkVars, fragVars, fusVars, idxVars>>
    \/ ChatGenerar /\ UNCHANGED <<chunkVars, fragVars, fusVars, idxVars>>
    \/ ChatGenerarFalla /\ UNCHANGED <<chunkVars, fragVars, fusVars, idxVars>>

SpecSeleccion == InitSeleccion /\ [][NextSeleccion]_vars

\* ------------------------------------------------------------------------
\* Properties of the chunker
\* ------------------------------------------------------------------------
\* ceil(a / b) for b > 0
CeilDiv(a, b) == -((-a) \div b)

DefaultConfig == chunk_size = CHUNK_SIZE /\ overlap = CHUNK_OVERLAP

\* the text has no whitespace character
SinEspacios == Len(texto) = 1

ChunkDone == chunk_pc = "return"

\* C5 as the spec states it: with the default parameters a text of L
\* characters, none of them whitespace, gives
\* max(0, ceil((L - overlap) / (chunk_size - overlap))) chunks.
C5_Original ==
    (ChunkDone /\ DefaultConfig /\ SinEspacios) =>
        Len(chunks) = Max(0, CeilDiv(TextLen(texto) - overlap, chunk_size - overlap))

\* C5 amended: with the default parameters a text of L characters, none of
\* them whitespace, gives 0 chunks when L < MIN_CHUNK_LENGTH, 1 chunk when
\* MIN_CHUNK_LENGTH <= L <= overlap, and
\* ceil((L - overlap) / (chunk_size - overlap)) chunks when L > overlap.
C5_ChunkCount ==
    (ChunkDone /\ DefaultConfig /\ SinEspacios) =>
        Len(chunks) =
            IF TextLen(texto) < MIN_CHUNK_LENGTH THEN 0
            ELSE IF TextLen(texto) <= overlap THEN 1
            ELSE CeilDiv(TextLen(texto) - overlap, chunk_size - overlap)

\* a short page, between MIN_CHUNK_LENGTH and the overlap, gave one chunk,
\* and a long one gave three
C5_Witness ==
    /\ ChunkDone /\ DefaultConfig /\ SinEspacios
    /\ \/ TextLen(texto) = 150 /\ Len(chunks) = 1
       \/ TextLen(texto) = 1401 /\ Len(chunks) = 3

\* the end of the prefix [0, r) covered by the kept chunks k..Len(cs), given
\* that [0, r) is covered by the chunks before k; -1 when a kept chunk
\* starts after the covered prefix (a hole)
RECURSIVE CoveredPrefix(_, _, _)
CoveredPrefix(cs, k, r) ==
    IF k > Len(cs) THEN r
    ELSE IF cs[k].ini > r THEN -1
    ELSE CoveredPrefix(cs, k + 1, Max(r, cs[k].fin))

\* C6: with the default parameters the source ranges of the kept chunks
\* cover [0, L) except possibly one final span shorter than
\* MIN_CHUNK_LENGTH, whatever whitespace the text holds.
C6_Coverage ==
    (ChunkDone /\ DefaultConfig) =>
        LET r == CoveredPrefix(chunks, 1, 0)
        IN  r >= 0 /\ TextLen(texto) - r < MIN_CHUNK_LENGTH

\* C7: with chunk_size <= overlap the chunker does not loop without end:
\* it never finishes a pass and comes back to the head of its loop
\* without having advanced.
C7_FailFast ==
    [][(chunk_size <= overlap /\ chunk_pc = "while" /\ chunk_pc' = "while")
          => inicio' > inicio]_vars

\* C17: with 0 <= overlap < chunk_size dividir_en_chunks terminates: every
\* pass that does not reach the end of the text moves the start forward by
\* exactly chunk_size - overlap, the first pass whose slice reaches the end
\* of the text leaves the loop, and the function eventually returns.
C17_Termina ==
    /\ [][(overlap < chunk_size /\ chunk_pc = "while" /\ chunk_pc' = "while")
             => /\ inicio + chunk_size < TextLen(texto)
                /\ inicio' = inicio + chunk_size - overlap
                /\ inicio' > inicio]_vars
    /\ [][(overlap < chunk_size /\ chunk_pc = "while"
              /\ inicio + chunk_size >= TextLen(texto)) => chunk_pc' = "return"]_vars
    /\ (0 <= overlap /\ overlap < chunk_size) => <>(chunk_pc = "return")

\* a text that took several passes, with and without overlap, was chunked
\* to its end
C17_Witness ==
    /\ chunk_pc = "return"
    /\ overlap < chunk_size
    /\ iter >= 3
    /\ inicio = (iter - 1) * (chunk_size - overlap)
    /\ inicio + chunk_size >= TextLen(texto)

\* ------------------------------------------------------------------------
\* Properties of the fragment ids and of the neighbours
\* ------------------------------------------------------------------------
MismaTripleta(t, u) ==
    t.archivo = u.archivo /\ t.i = u.i /\ t.chunk_idx = u.chunk_idx

\* C8: the id the indexer writes for a (source, page, chunk) triple, the ids
\* the semantic and the keyword search build from its metadata and the
\* store id the exhaustive scan uses are one string; every neighbour id the
\* expander asks for is the id of a stored chunk, whose id built from the
\* metadata read back is the same again; two different triples have
\* different ids.
C8_IdsCoinciden ==
    frag_pc = "fin" =>
        /\ \A g \in {<<guardado_a, ids_a>>, <<guardado_b, ids_b>>} :
              /\ g[2].semantico = g[1].id
              /\ g[2].keyword = g[1].id
              /\ g[2].exhaustivo = g[1].id
        /\ Cardinality(ids_leidos) = Len(ids_adyacentes)
        /\ \A v \in ids_leidos : v.v_id = v.pedido
        /\ MismaTripleta(trip_a, trip_b) <=> guardado_a.id = guardado_b.id
        /\ MismaTripleta(trip_a, trip_b) <=> ids_a.semantico = ids_b.keyword

\* two triples whose file names and pages could be confused, followed to
\* the end, with two neighbours read back
C8_Witness ==
    /\ frag_pc = "fin"
    /\ trip_a.archivo = "spec.pdf_pag1.pdf" /\ trip_a.i = 0 /\ trip_a.chunk_idx = 1
    /\ trip_b.archivo = "spec.pdf" /\ trip_b.i = 1 /\ trip_b.chunk_idx = 1
    /\ guardado_a.id = "spec.pdf_pag1.pdf_pag0_chunk1"
    /\ ids_b.keyword = "spec.pdf_pag1_chunk1"
    /\ Cardinality(ids_leidos) = 2

\* C9: for chunk c of a page of T chunks and n neighbours on each side, the
\* expander returns the ids of chunks c-1, c-2, ... down to c-n that are
\* >= 0, followed by those of c+1, ... up to c+n that are < T, all of the
\* same file and page and none the fragment's own; c=2, T=5, n=1 gives
\* chunks 1 and 3, and c=0 gives successors only.
C9_Vecinos ==
    frag_pc \in {"leer", "fin"} =>
        LET c == trip_a.chunk_idx
            T == trip_a.total
            np == Min(n_vecinos, c)
            ns == Max(0, Min(n_vecinos, T - 1 - c))
            Id(k) == EntradaIndexar(trip_a.archivo, trip_a.i, k, T).id
        IN  /\ Len(ids_adyacentes) = np + ns
            /\ \A k \in 1..(np + ns) :
                  ids_adyacentes[k] = IF k <= np THEN Id(c - k) ELSE Id(c + (k - np))
            /\ \A k \in 1..(np + ns) : ids_adyacentes[k] # guardado_a.id
            /\ (c = 2 /\ T = 5 /\ n_vecinos = 1) => ids_adyacentes = <<Id(1), Id(3)>>
            /\ c = 0 => \A k \in 1..Len(ids_adyacentes) :
                            \E j \in 1..n_vecinos : ids_adyacentes[k] = Id(j)

\* chunk 2 of a page of 5 asked for chunks 1 and 3, and the last chunk of a
\* page asked for its two predecessors only
C9_Witness ==
    /\ frag_pc = "leer"
    /\ trip_a.archivo = "spec.pdf" /\ trip_a.i = 0
    /\ \/ /\ trip_a.chunk_idx = 2 /\ trip_a.total = 5 /\ n_vecinos = 1
          /\ ids_adyacentes = <<"spec.pdf_pag0_chunk1", "spec.pdf_pag0_chunk3">>
       \/ /\ trip_a.chunk_idx = 4 /\ trip_a.total = 5 /\ n_vecinos = 2
          /\ ids_adyacentes = <<"spec.pdf_pag0_chunk3", "spec.pdf_pag0_chunk2">>

\* ------------------------------------------------------------------------
\* Properties of the fusion as a function
\* ------------------------------------------------------------------------
\* the score of fragment id in fd, 0 when fd has no entry for it
FinalDe(fd, id) == IF Pos(fd, id) = 0 THEN 0 ELSE fd[Pos(fd, id)].score_final
KeywordDe(fd, id) == IF Pos(fd, id) = 0 THEN 0 ELSE fd[Pos(fd, id)].score_keyword

\* C4: with the other inputs unchanged, one more hit for a fragment at any
\* position of the keyword list does not lower the score_final of that
\* fragment, and one more match of the exhaustive scan in a fragment does
\* not lower its score_keyword.
C4_Monotonia ==
    fus_pc = "fin" =>
        /\ FinalDe(fus_mas_kw, ColeccionA[fus_hit].id)
              >= FinalDe(fus_base, ColeccionA[fus_hit].id)
        /\ KeywordDe(fus_mas_exh, ColeccionA[fus_frag].id)
              >= KeywordDe(fus_base, ColeccionA[fus_frag].id)

\* the new hit went in front of two hits of the same fragment, which moved
\* one rank down, and the new match came on top of an earlier one; both
\* scores grew
C4_Witness ==
    /\ fus_pc = "fin"
    /\ fus_pos = 1
    /\ Len(fus_kw) = 2
    /\ \A k \in 1..2 : fus_kw[k].id = ColeccionA[fus_hit].id
    /\ fus_exh[fus_frag] = 1
    /\ FinalDe(fus_mas_kw, ColeccionA[fus_hit].id)
          > FinalDe(fus_base, ColeccionA[fus_hit].id)
    /\ KeywordDe(fus_mas_exh, ColeccionA[fus_frag].id)
          = KeywordDe(fus_base, ColeccionA[fus_frag].id) + PuntosExhaustivos(1)

\* ------------------------------------------------------------------------
\* Properties of the chat loop
\* ------------------------------------------------------------------------
\* mejor_score, in units of 1 / (10 * EscalaRRF), is below 0.02 = 1 / 50
Bajo002 == 50 * mejor_score < 10 * EscalaRRF

\* what the step that leaves the gate must do for each of the three cases
PasoDelGate ==
    chat_pc = "gate" =>
        /\ fragmentos_ranked = << >> =>
              /\ resultado' = "info_no_encontrada"
              /\ chat_pc' = "input"
              /\ ~generado'
        /\ (fragmentos_ranked # << >> /\ Bajo002) =>
              /\ resultado' = "fuera_de_ambito"
              /\ chat_pc' = "input"
              /\ ~generado'
        /\ (fragmentos_ranked # << >> /\ ~Bajo002) =>
              /\ resultado' = "generar"
              /\ chat_pc' \in {"expandir", "generar"}
              /\ ~generado'

\* expansion comes before generation, and generation is the step after it
PasoTrasElGate ==
    /\ chat_pc = "expandir" => chat_pc' \in {"expandir", "generar"} /\ ~generado'
    /\ chat_pc = "generar" => generado' /\ chat_pc' \in {"input", "excepcion"}
    /\ (chat_pc = "input" /\ chat_pc' = "input") => UNCHANGED <<resultado, generado>>

\* generation and expansion belong to the third outcome only
SoloTrasGenerar ==
    /\ generado => resultado = "generar"
    /\ chat_pc \in {"expandir", "generar"} => resultado = "generar"
    /\ resultado \in {"info_no_encontrada", "fuera_de_ambito"} => chat_pc \in {"input", "fin"}
    /\ chat_pc \in {"semantica", "keywords", "fusion", "exhaustiva", "gate"} =>
          resultado = "ninguno" /\ ~generado

\* C1: a question whose search returns gets exactly one outcome, decided in
\* this order: an empty ranked list gives the "no information" message, a
\* non-empty list with a top score below 0.02 gives the "out of scope"
\* message, and a top score of at least 0.02 goes on to the expansion and
\* then to the generation; the generation is never called after one of the
\* two messages, and after either message the loop is back at its prompt.
C1_Gate == [](SoloTrasGenerar) /\ [][PasoDelGate /\ PasoTrasElGate]_vars

\* the "out of scope" message was printed for a question with fragments,
\* nothing was generated and the prompt is open again
C1_Witness ==
    /\ chat_pc = "input"
    /\ resultado = "fuera_de_ambito"
    /\ ~generado
    /\ Len(entrada) > 1

\* realizar_busqueda_hibrida has returned fragmentos_ranked and mejor_score
Devuelto == chat_pc \in {"gate", "expandir", "generar"}

\* C2: every fragment of the list realizar_busqueda_hibrida returns has
\* score_final = 0.6 * score_semantic + 0.4 * score_keyword for the
\* score_semantic and score_keyword it ends with, whichever search brought
\* it in and whether or not the exhaustive search ran.
C2_ScoreFinal ==
    Devuelto =>
        \A k \in 1..Len(fragmentos_ranked) :
            fragmentos_ranked[k].score_final =
                6 * fragmentos_ranked[k].score_semantic
                    + 4 * fragmentos_ranked[k].score_keyword

\* the list holds a fragment of the semantic search, one the keyword search
\* brought in and one only the exhaustive search found
C2_Witness ==
    /\ chat_pc = "gate"
    /\ TerminosCriticos # << >>
    /\ \E a, b, c \in 1..Len(fragmentos_ranked) :
          /\ fragmentos_ranked[a].query_matches # << >>
          /\ fragmentos_ranked[b].query_matches = << >>
          /\ fragmentos_ranked[b].distancia # DistInf
          /\ fragmentos_ranked[c].distancia = DistInf
          /\ fragmentos_ranked[c].score_keyword > 0

\* C3: the list realizar_busqueda_hibrida returns is in non-increasing
\* order of score_final, has every fragment id at most once and holds the
\* fragments of fragmentos_data; the returned mejor_score is the
\* score_final of its first element, the largest of all the fragments, and
\* 0 for the empty list.
C3_Ranking ==
    Devuelto =>
        /\ \A j, k \in 1..Len(fragmentos_ranked) :
              j < k => /\ fragmentos_ranked[j].score_final >= fragmentos_ranked[k].score_final
                       /\ fragmentos_ranked[j].id # fragmentos_ranked[k].id
        /\ Len(fragmentos_ranked) = Len(fragmentos_data)
        /\ Rango(fragmentos_ranked) = Rango(fragmentos_data)
        /\ IF fragmentos_ranked = << >>
           THEN mejor_score = 0
           ELSE /\ mejor_score = fragmentos_ranked[1].score_final
                /\ \A k \in 1..Len(fragmentos_data) :
                      fragmentos_data[k].score_final <= mejor_score

\* three fragments came back, with different scores and in another order
\* than the one they were found in
C3_Witness ==
    /\ chat_pc = "gate"
    /\ Len(fragmentos_ranked) = 3
    /\ fragmentos_ranked[1].score_final > fragmentos_ranked[2].score_final
    /\ fragmentos_ranked[2].score_final > fragmentos_ranked[3].score_final
    /\ fragmentos_ranked # fragmentos_data

\* C10: an embedding call, a query of the store, a keyword query, a batch
\* read of the scan or a read of the neighbours that raises is recovered
\* where it happens and never ends the question with an exception.
C10_Recuperacion ==
    fallo \in {"embedding", "consulta", "keyword", "lote", "vecinos"} =>
        chat_pc # "excepcion"

\* ------------------------------------------------------------------------
\* Properties of the store and of the start of main
\* ------------------------------------------------------------------------
\* ejecutar_chat is running
EnElChat ==
    chat_pc \in {"input", "semantica", "keywords", "fusion", "exhaustiva", "gate",
                 "expandir", "generar", "excepcion"}

\* C11: once the chat loop has started, no question and no command (stats,
\* docs, temas, ayuda, the empty line, exit) changes the collection: its
\* fragments, their text and their metadata stay as they were when the
\* loop began, and only the indexing at the start of main writes to it.
C11_StoreInmutable ==
    [][(coleccion' # coleccion => chat_pc = "indexar")
        /\ (EnElChat => coleccion' = coleccion)]_vars

\* a question was answered with a generated text, a command followed, and
\* the collection is the indexed one
C11_Witness ==
    /\ chat_pc = "input"
    /\ hubo_previa
    /\ generado
    /\ entrada \in { <<c>> : c \in Comandos }
    /\ coleccion = ColeccionA

\* what main does with the count of the collection, and what it does with
\* the count indexar_documentos returns
PasoDeMain ==
    /\ chat_pc = "main" =>
          /\ chat_pc' = "indexar" <=> Len(coleccion) = 0
          /\ chat_pc' = "input" <=> Len(coleccion) # 0
          /\ coleccion' = coleccion
    /\ chat_pc = "indexar" =>
          /\ chat_pc' = "input" <=> Len(coleccion') > 0
          /\ chat_pc' = "fin" <=> Len(coleccion') = 0
    /\ coleccion' # coleccion => Len(coleccion) = 0

\* C16: at the start indexing runs exactly when the collection is empty; a
\* collection with fragments is never indexed again nor added to, and the
\* chat loop is entered only with at least one stored fragment: when
\* indexing adds none, main returns without starting the chat.
C16_IndexarSiVacia ==
    /\ [](chat_pc = "indexar" => Len(coleccion) = 0)
    /\ [](EnElChat => Len(coleccion) > 0)
    /\ [][PasoDeMain]_vars

\* the folder has a file, nothing of it could be indexed and main returned
\* without a prompt
C16_Witness ==
    /\ chat_pc = "fin"
    /\ archivos_pdf # << >>
    /\ Len(coleccion) = 0
    /\ entrada = << >>

\* ------------------------------------------------------------------------
\* Properties of the selection and of the expansion
\* ------------------------------------------------------------------------
\* the fragments were selected and generar_respuesta has not returned
Seleccionado == chat_pc \in {"expandir", "generar"}

\* min(12, n) for the n ranked fragments
NumSeleccionados == IF Len(fragmentos_ranked) < 12 THEN Len(fragmentos_ranked) ELSE 12

\* a and b are stored next to each other in one page of one file
Contiguos(a, b) ==
    /\ a.metadata.source = b.metadata.source
    /\ a.metadata.page = b.metadata.page
    /\ \/ a.metadata.chunk = b.metadata.chunk + 1
       \/ a.metadata.chunk + 1 = b.metadata.chunk

\* a is next to one of the first 6 selected fragments
VecinoDeLosSeis(a) ==
    \E k \in 1..6 : k <= NumSeleccionados /\ Contiguos(a, fragmentos_ranked[k])

\* C12: the ranked fragments handed on to the generation are the first
\* min(12, n) entries of the n ranked ones, in their order; a fragment
\* ranked 13th or lower is never among them, and neighbours are asked only
\* for the first 6 of the selected fragments.
C12_Seleccion ==
    Seleccionado =>
        /\ Len(fragmentos_finales) >= NumSeleccionados
        /\ \A k \in 1..NumSeleccionados : fragmentos_finales[k] = fragmentos_ranked[k]
        /\ chat_pc = "expandir" => Len(fragmentos_finales) = NumSeleccionados
        /\ exp_idx <= 6
        /\ \A k \in 1..Len(chunks_adicionales) : VecinoDeLosSeis(chunks_adicionales[k])
        /\ \A k \in (NumSeleccionados + 1)..Len(fragmentos_finales) :
              /\ fragmentos_finales[k].score_final = 0
              /\ fragmentos_finales[k].distancia = DistInf
              /\ VecinoDeLosSeis(fragmentos_finales[k])

\* more than 12 fragments were ranked, 12 were selected, neighbours were
\* added, and a neighbour of the 7th selected fragment was not asked for
C12_Witness ==
    /\ chat_pc = "generar"
    /\ Len(fragmentos_ranked) > 12
    /\ Len(fragmentos_finales) > 12
    /\ \E f \in Rango(coleccion) :
          /\ Contiguos(f, fragmentos_ranked[7])
          /\ \A k \in 1..Len(fragmentos_finales) : fragmentos_finales[k].id # f.id

\* the fragments that go to the generation, before and after the extend
Contexto ==
    IF chat_pc = "expandir" THEN fragmentos_finales \o chunks_adicionales
    ELSE fragmentos_finales

\* C13: after the expansion the list handed to the generation has no two
\* fragments with the same id: a neighbour whose id is among the selected
\* fragments, or was added as the neighbour of an earlier fragment, is
\* skipped.
C13_SinDuplicados ==
    Seleccionado =>
        /\ \A j, k \in 1..Len(Contexto) : j # k => Contexto[j].id # Contexto[k].id
        /\ ids_usados = { Contexto[k].id : k \in 1..Len(Contexto) }

\* two of the first 6 selected fragments have the same neighbour, which
\* was added once, and another neighbour of theirs was selected itself
C13_Witness ==
    /\ chat_pc = "generar"
    /\ \E i, j \in 1..6 :
          /\ i < j
          /\ j <= NumSeleccionados
          /\ \E k \in (NumSeleccionados + 1)..Len(fragmentos_finales) :
                /\ Contiguos(fragmentos_finales[k], fragmentos_ranked[i])
                /\ Contiguos(fragmentos_finales[k], fragmentos_ranked[j])
    /\ \E i \in 1..6, k \in 1..NumSeleccionados :
          i <= NumSeleccionados /\ Contiguos(fragmentos_ranked[k], fragmentos_ranked[i])

\* ------------------------------------------------------------------------
\* Properties of extraer_keywords
\* ------------------------------------------------------------------------
\* C14: extraer_keywords returns a list without duplicates in which every
\* keyword is in lowercase, whether it was kept by the length and stopword
\* filter, flagged as a technical term or added from the expansion table.
C14_Minusculas ==
    /\ \A k \in 1..Len(keywords_expandidas) :
          Lower(keywords_expandidas[k]) = keywords_expandidas[k]
    /\ \A j, k \in 1..Len(keywords_expandidas) :
          j # k => keywords_expandidas[j] # keywords_expandidas[k]

\* ------------------------------------------------------------------------
\* Properties of a retrieval cycle as a whole
\* ------------------------------------------------------------------------
\* the semantic accumulation run again from the answers of the store to
\* the first n query variants
RECURSIVE SemanticoDe(_, _)
SemanticoDe(listas, n) ==
    IF n = 0 THEN << >>
    ELSE AcumularSemantico(SemanticoDe(listas, n - 1), listas[n], 1, n - 1)

EnLaBusqueda ==
    chat_pc \in {"semantica", "keywords", "fusion", "exhaustiva", "gate", "expandir", "generar"}

VariantesCon(id) ==
    { j \in 1..Len(results_semantic) :
        \E r \in 1..Len(results_semantic[j]) :
           IdSemantico(results_semantic[j][r].metadata) = id }

\* the sum of 1/(r + 60) over the places r <= n of lista that hold id
RECURSIVE SumaRangos(_, _, _)
SumaRangos(id, lista, n) ==
    IF n = 0 THEN 0
    ELSE SumaRangos(id, lista, n - 1)
         + (IF IdSemantico(lista[n].metadata) = id THEN EscalaRRF \div (n + 60) ELSE 0)

\* the same sum over the first m result lists
RECURSIVE SumaVariantes(_, _)
SumaVariantes(id, m) ==
    IF m = 0 THEN 0
    ELSE SumaVariantes(id, m - 1)
         + SumaRangos(id, results_semantic[m], Len(results_semantic[m]))

Creciente(l) == \A j, k \in 1..Len(l) : j < k => l[j] < l[k]

\* C19: after each pass of the semantic search, the fragments accumulated
\* are those of the result lists received, the score_semantic of each is the
\* sum over the variants whose list holds it of 1/(r + 60), r being its
\* 1-based rank in that list, and its query_matches are the 1-based indices
\* of exactly those variants.
C19_Semantico ==
    /\ \A k \in 1..Len(all_semantic_results) :
          LET f == all_semantic_results[k]
          IN  /\ VariantesCon(f.id) # {}
              /\ f.score_semantic = SumaVariantes(f.id, Len(results_semantic))
              /\ Rango(f.query_matches) = VariantesCon(f.id)
              /\ Creciente(f.query_matches)
              /\ f.score_keyword = 0
    /\ \A j \in 1..Len(results_semantic) : \A r \in 1..Len(results_semantic[j]) :
          \E k \in 1..Len(all_semantic_results) :
             all_semantic_results[k].id = IdSemantico(results_semantic[j][r].metadata)
    /\ \A j, k \in 1..Len(all_semantic_results) :
          j # k => all_semantic_results[j].id # all_semantic_results[k].id

\* a fragment was second for the first variant, absent for the second and
\* first for the third
C19_Witness ==
    /\ chat_pc = "keywords"
    /\ \E k \in 1..Len(all_semantic_results) :
          /\ all_semantic_results[k].query_matches = <<1, 3>>
          /\ Len(results_semantic[1]) = 2
          /\ results_semantic[1][2].metadata = all_semantic_results[k].metadata
          /\ results_semantic[3][1].metadata = all_semantic_results[k].metadata

\* ------------------------------------------------------------------------
\* Properties of the keyword fusion
\* ------------------------------------------------------------------------
\* the sum of 1/(r + 60) over the places r <= n of the list of keyword hits
\* that hold the fragment id
RECURSIVE SumaHits(_, _, _)
SumaHits(id, hits, n) ==
    IF n = 0 THEN 0
    ELSE SumaHits(id, hits, n - 1)
         + (IF hits[n].id = id THEN EscalaRRF \div (n + 60) ELSE 0)

\* fd is the keyword fusion of the semantic results sem and the hits
FusionDeHits(fd, sem, hits) ==
    /\ \A k \in 1..Len(fd) :
          LET f == fd[k]
              enSem == { j \in 1..Len(sem) : sem[j].id = f.id }
          IN  /\ f.score_keyword = SumaHits(f.id, hits, Len(hits))
              /\ enSem = {} =>
                    /\ f.score_semantic = 0
                    /\ \E r \in 1..Len(hits) : hits[r].id = f.id
              /\ \A j \in enSem : f.score_semantic = sem[j].score_semantic
    /\ \A r \in 1..Len(hits) : \E k \in 1..Len(fd) : fd[k].id = hits[r].id
    /\ \A j \in 1..Len(sem) : \E k \in 1..Len(fd) : fd[k].id = sem[j].id
    /\ \A j, k \in 1..Len(fd) : j # k => fd[j].id # fd[k].id

\* the exhaustive search returned nothing: the fusion is the keyword fusion
SinExhaustivos == \A k \in DOMAIN fus_exh : fus_exh[k] = 0

HitsMas == Insertar(fus_kw, fus_pos, HitKeyword(ColeccionA[fus_hit], "kw"))

\* C18: after the keyword fusion the score_keyword of every fragment is the
\* sum of 1/(r + 60) over every 1-based place r of the whole list of keyword
\* hits at which the fragment appears, repetitions included; a fragment that
\* came only from keyword hits has score_semantic 0, one that came from the
\* semantic search keeps its score_semantic, and every hit is in the fusion.
C18_FusionKeywords ==
    (fus_pc = "fin" /\ SinExhaustivos) =>
        /\ FusionDeHits(fus_base, fus_sem, fus_kw)
        /\ FusionDeHits(fus_mas_kw, fus_sem, HitsMas)

\* a fragment the semantic search did not return was emitted first and
\* third by the keyword searcher, with a fragment it did return in between
C18_Witness ==
    /\ fus_pc = "fin"
    /\ SinExhaustivos
    /\ Len(HitsMas) = 3
    /\ HitsMas[1].id = HitsMas[3].id
    /\ HitsMas[1].id # HitsMas[2].id
    /\ \A j \in 1..Len(fus_sem) : fus_sem[j].id # HitsMas[1].id
    /\ \E j \in 1..Len(fus_sem) : fus_sem[j].id = HitsMas[2].id

\* ------------------------------------------------------------------------
\* Properties of the exhaustive search
\* ------------------------------------------------------------------------
\* the number of distinct critical terms of the question that are whole
\* words of the fragment, whatever their case
MatchCount(f) ==
    Cardinality({ Lower(TerminosCriticos[k]) : k \in 1..Len(TerminosCriticos) }
                \cap { Lower(w) : w \in f.doc })

DevueltoPorExhaustiva(id) ==
    \E k \in 1..Len(resultados_exhaustivos) : resultados_exhaustivos[k].id = id

VistoAntes(id) ==
    \/ VariantesCon(id) # {}
    \/ \E r \in 1..Len(resultados_keyword) : resultados_keyword[r].id = id

\* C20: when realizar_busqueda_hibrida returns, the exhaustive scan has run
\* only if some keyword is a critical term; every fragment it returned has
\* gained exactly 0.5 * matchCount in score_keyword over the keyword fusion,
\* matchCount being the number of distinct critical terms of the question
\* found as whole words in it, a fragment not seen before has score_semantic
\* 0 and an infinite distance, and the score_semantic of every fragment is
\* the one of the semantic search.
C20_Exhaustiva ==
    chat_pc = "gate" =>
        /\ TerminosCriticos = << >> => resultados_exhaustivos = << >>
        /\ \A k \in 1..Len(resultados_exhaustivos) :
              \E j \in 1..Len(fragmentos_data) :
                 fragmentos_data[j].id = resultados_exhaustivos[k].id
        /\ \A k \in 1..Len(fragmentos_data) :
              LET f == fragmentos_data[k]
              IN  /\ f.score_keyword =
                        SumaHits(f.id, resultados_keyword, Len(resultados_keyword))
                        + (IF DevueltoPorExhaustiva(f.id)
                           THEN (MatchCount(f) * EscalaRRF) \div 2 ELSE 0)
                  /\ f.score_semantic = SumaVariantes(f.id, Len(results_semantic))
                  /\ ~VistoAntes(f.id) =>
                        /\ DevueltoPorExhaustiva(f.id)
                        /\ f.score_semantic = 0
                        /\ f.distancia = DistInf

\* ------------------------------------------------------------------------
\* Properties of the context expansion
\* ------------------------------------------------------------------------
\* the ids of the stored fragments next to f that are not in use yet
VecinosNuevos(f) ==
    { g.id : g \in { h \in Rango(coleccion) : Contiguos(h, f) } } \ ids_usados

EsPrefijo(a, b) == Len(a) <= Len(b) /\ SubSeq(b, 1, Len(a)) = a

\* C21: every pass of the expansion only appends. The ranked list and the
\* selected fragments at the front of the final list keep their place, order
\* and scores; the neighbours already added stay where they are; a pass
\* whose read fails adds nothing and removes nothing, a pass whose read
\* succeeds adds the stored neighbours of its fragment that are not in use,
\* each with score_final 0 and an infinite distance; every one of the first
\* 6 selected fragments gets its pass, failed reads or not, and the list
\* handed to the generation is the selected fragments followed by all the
\* neighbours added.
C21_SoloAgrega ==
    [][chat_pc = "expandir" =>
          /\ fragmentos_ranked' = fragmentos_ranked
          /\ \A k \in 1..NumSeleccionados :
                /\ fragmentos_finales[k] = fragmentos_ranked[k]
                /\ fragmentos_finales'[k] = fragmentos_ranked[k]
          /\ EsPrefijo(chunks_adicionales, chunks_adicionales')
          /\ \A k \in (Len(chunks_adicionales) + 1)..Len(chunks_adicionales') :
                /\ chunks_adicionales'[k].score_final = 0
                /\ chunks_adicionales'[k].distancia = DistInf
          /\ { chunks_adicionales'[k].id :
                  k \in (Len(chunks_adicionales) + 1)..Len(chunks_adicionales') }
                = IF fallos' # fallos THEN {}
                  ELSE VecinosNuevos(fragmentos_finales[exp_idx + 1])
          /\ exp_idx' = exp_idx + 1
          /\ chat_pc' = "generar" <=> exp_idx' = Min(6, NumSeleccionados)
          /\ fragmentos_finales' =
                IF chat_pc' = "generar"
                THEN SubSeq(fragmentos_ranked, 1, NumSeleccionados) \o chunks_adicionales'
                ELSE SubSeq(fragmentos_ranked, 1, NumSeleccionados)]_vars

\* the read failed for one of the selected fragments: a stored neighbour of
\* it is missing from the final list, while neighbours of fragments
\* expanded before and after it were added
C21_Witness ==
    /\ chat_pc = "generar"
    /\ fallo = "vecinos"
    /\ ~generado
    /\ \E i \in 2..5 :
          /\ i < NumSeleccionados
          /\ \E g \in Rango(coleccion) :
                /\ Contiguos(g, fragmentos_ranked[i])
                /\ \A k \in 1..Len(fragmentos_finales) : fragmentos_finales[k].id # g.id
          /\ \E k \in (NumSeleccionados + 1)..Len(fragmentos_finales) :
                /\ Contiguos(fragmentos_finales[k], fragmentos_ranked[1])
                /\ \A j \in 2..i : ~Contiguos(fragmentos_finales[k], fragmentos_ranked[j])
          /\ \E k \in (NumSeleccionados + 1)..Len(fragmentos_finales) :
                /\ Contiguos(fragmentos_finales[k], fragmentos_ranked[i + 1])
                /\ \A j \in 1..i : ~Contiguos(fragmentos_finales[k], fragmentos_ranked[j])

\* ------------------------------------------------------------------------
\* Properties of a retrieval with semantic results only
\* ------------------------------------------------------------------------
\* neither the keyword search nor the exhaustive one returned anything
SinHits == resultados_keyword = << >> /\ resultados_exhaustivos = << >>

\* C22: when realizar_busqueda_hibrida returns with no hit of the keyword
\* search and none of the exhaustive one, the top score is at most
\* 0.6 * v / 61 for the v query variants issued; with v <= 2 it is below
\* 0.02, the gate answers "no information" or "out of scope", and such a
\* question never reaches the selection and the generation.
C22_SoloSemantica ==
    /\ (chat_pc = "gate" /\ SinHits) =>
          /\ Len(results_semantic) = Len(queries)
          /\ 61 * mejor_score <= 6 * Len(queries) * EscalaRRF
          /\ Len(queries) <= 2 =>
                /\ 50 * mejor_score < 10 * EscalaRRF
                /\ Veredicto(fragmentos_ranked, mejor_score)
                      \in {"info_no_encontrada", "fuera_de_ambito"}
    /\ (chat_pc \in {"expandir", "generar"} /\ SinHits) => Len(queries) >= 3

\* two variants and no hits: the same fragment was first for both, its score
\* is exactly 0.6 * 2 / 61 and the question is out of scope
C22_Witness ==
    /\ chat_pc = "gate"
    /\ SinHits
    /\ Len(queries) = 2
    /\ 61 * mejor_score = 6 * 2 * EscalaRRF
    /\ Veredicto(fragmentos_ranked, mejor_score) = "fuera_de_ambito"

\* ------------------------------------------------------------------------
\* Properties of indexar_documentos
\* ------------------------------------------------------------------------
\* the stored fragment f belongs to a page whose indexing no exception cut
PaginaCompleta(f) == <<f.metadata.source, f.metadata.page>> \notin paginas_fallidas

\* C23: when indexar_documentos returns, every stored fragment has
\* 0 <= chunk < total_chunks_in_page; for every page whose indexing no
\* exception cut the store holds one fragment for each chunk index
\* 0..total_chunks_in_page - 1, and every neighbour id
\* expandir_con_chunks_adyacentes gives for a stored fragment of such a page
\* is the id of a stored fragment; the count returned is the number of
\* fragments added to the store.
C23_Indexado ==
    idx_pc = "return" =>
        /\ total_chunks = Len(coleccion)
        /\ \A j, k \in 1..Len(coleccion) : j # k => coleccion[j].id # coleccion[k].id
        /\ \A k \in 1..Len(coleccion) :
              LET f == coleccion[k]
              IN  /\ 0 <= f.metadata.chunk
                  /\ f.metadata.chunk < f.metadata.total_chunks_in_page
                  /\ PaginaCompleta(f) =>
                        /\ \A c \in 0..(f.metadata.total_chunks_in_page - 1) :
                              \E j \in 1..Len(coleccion) :
                                 /\ coleccion[j].metadata.source = f.metadata.source
                                 /\ coleccion[j].metadata.page = f.metadata.page
                                 /\ coleccion[j].metadata.chunk = c
                        /\ \A n \in 1..MaxVecinos :
                              \A id \in Rango(ExpandirConChunksAdyacentes(f.id, f.metadata, n)) :
                                 \E j \in 1..Len(coleccion) : coleccion[j].id = id

\* two files were indexed: a page of the first was cut by an exception after
\* its first chunk, so that a neighbour of that chunk is not stored, and a
\* page of the second was stored whole with its three chunks
C23_Witness ==
    /\ idx_pc = "return"
    /\ total_chunks >= 4
    /\ \E k \in 1..Len(coleccion) :
          /\ ~PaginaCompleta(coleccion[k])
          /\ \E id \in Rango(ExpandirConChunksAdyacentes(coleccion[k].id,
                                                           coleccion[k].metadata, 1)) :
                \A j \in 1..Len(coleccion) : coleccion[j].id # id
    /\ \E k \in 1..Len(coleccion) :
          /\ PaginaCompleta(coleccion[k])
          /\ coleccion[k].metadata.source = "b.pdf"
          /\ coleccion[k].metadata.total_chunks_in_page = 3

====
